---- MODULE Spec2Model ----
(***************************************************************************)
(* EnrichmentService of tally-extension                                    *)
(* (src/background/services/enrichment/index.ts): the annotation resolver  *)
(* resolveTransactionAnnotation, the callers enrichTransaction and the     *)
(* chain "transaction" event handler, together with the collaborators      *)
(* (chain, indexing, naming) seen through the calls the service makes.     *)
(*                                                                         *)
(* An optional JavaScript value is a sequence of length 0 (undefined) or 1 *)
(* (the value): None, Some(v).  An address is a sequence of hex digits, so *)
(* that two spellings of one address differ and normalisation is computed. *)
(***************************************************************************)
EXTENDS Integers, Sequences, FiniteSets, TLC

\* ------------------------------------------------------------------ bounds
\* Longest list of receipt logs a transaction carries.
MaxLogs == 2
\* Number of chain "transaction" events delivered in a run of Spec.
MaxEvents == 2
\* Largest raw token amount (amounts are carried as BigInt, unbounded).
MaxAmount == 1
\* The most transfers one alchemy_getAssetTransfers response reports.
MaxTransfers == 2

\* --------------------------------------------------------- optional values
None == << >>
Some(v) == << v >>
IsSome(o) == Len(o) = 1
Get(o) == o[1]

\* --------------------------------------------------------------- addresses
\* Lower-casing of one hex digit.
ToLowerHex(c) ==
  CASE c = "A" -> "a"
    [] c = "B" -> "b"
    [] c = "C" -> "c"
    [] c = "D" -> "d"
    [] c = "E" -> "e"
    [] c = "F" -> "f"
    [] OTHER -> c

\* normalizeEVMAddress puts an address in its canonical lower-case spelling.
normalizeEVMAddress(address) ==
  [i \in DOMAIN address |-> ToLowerHex(address[i])]

\* sameEVMAddress: equality of the normalised spellings; an undefined side
\* never matches.
sameEVMAddress(a, b) ==
  /\ IsSome(a)
  /\ IsSome(b)
  /\ normalizeEVMAddress(Get(a)) = normalizeEVMAddress(Get(b))

\* The addresses the inputs are drawn from.
TokenAddr    == <<"a", "b">>   \* the token contract, as the asset list spells it
TokenAddrUC  == <<"A", "B">>   \* the same contract in upper case
OtherAddr    == <<"c", "0">>   \* a contract no asset list knows
FromAddr     == <<"1", "1">>   \* the raw transaction sender
OwnerAddr    == <<"2", "2">>   \* the decoded transferFrom owner
RcptAddr     == <<"d", "e">>   \* a recipient
RcptAddrUC   == <<"D", "E">>   \* the same recipient in upper case
Rcpt2Addr    == <<"f", "0">>   \* another recipient
SpenderAddr  == <<"e", "e">>   \* an approve spender

\* ------------------------------------------------------------------ assets
\* TODO desiredDecimals should be configurable: the handler passes 2.
desiredDecimals == 2

ETH == [symbol |-> "ETH", contractAddress |-> None, logoURL |-> None,
        decimals |-> 3]
USDC == [symbol |-> "USDC", contractAddress |-> Some(TokenAddr),
         logoURL |-> Some("usdc.png"), decimals |-> 1]
USDCNoLogo == [symbol |-> "USDC", contractAddress |-> Some(TokenAddrUC),
               logoURL |-> None, decimals |-> 1]

\* The network of every transaction; baseAsset is what a plain send moves.
network == [name |-> "Ethereum", baseAsset |-> ETH]

\* The known-asset lists the indexing collaborator can hold.  A fungible
\* asset is identified by its contract address: no list names one twice.
AssetSnapshots == { << >>, <<ETH, USDC>>, <<USDCNoLogo>> }

isSmartContractFungibleAsset(asset) == IsSome(asset.contractAddress)

\* assets.find(asset => isSmartContractFungibleAsset(asset) &&
\*                      sameEVMAddress(asset.contractAddress, address)):
\* the first asset of the list that matches, or undefined.
RECURSIVE FindFrom(_, _, _)
FindFrom(assets, address, i) ==
  IF i > Len(assets) THEN None
  ELSE IF /\ isSmartContractFungibleAsset(assets[i])
          /\ sameEVMAddress(assets[i].contractAddress, address)
       THEN Some(assets[i])
       ELSE FindFrom(assets, address, i + 1)

findMatchingFungibleAsset(assets, address) == FindFrom(assets, address, 1)

RECURSIVE Pow10(_)
Pow10(n) == IF n = 0 THEN 1 ELSE 10 * Pow10(n - 1)

\* enrichAssetAmountWithDecimalValues: the asset amount with its value at
\* desiredDecimals places, the raw amount kept as it is.
enrichAssetAmountWithDecimalValues(assetAmount, decimals) ==
  [asset |-> assetAmount.asset,
   amount |-> assetAmount.amount,
   decimalAmount |->
     IF assetAmount.asset.decimals >= decimals
     THEN assetAmount.amount \div Pow10(assetAmount.asset.decimals - decimals)
     ELSE assetAmount.amount * Pow10(decimals - assetAmount.asset.decimals)]

\* ---------------------------------------------------------------- call data
\* Call data is the sequence <<selector, argument, ...>>; "0x" is << >>.
TransferSelector     == "a9059cbb"
TransferFromSelector == "23b872dd"
ApproveSelector      == "095ea7b3"
UnknownSelector      == "deadbeef"

NoArgs == [from |-> None, to |-> None, spender |-> None,
           amount |-> None, value |-> None]

\* parseERC20Tx: the decoded call of one of the three ERC-20 functions, or
\* undefined for an unknown selector or a malformed encoding; never throws.
parseERC20Tx(input) ==
  IF Len(input) = 3 /\ input[1] = TransferSelector
  THEN Some([name |-> "transfer",
             args |-> [NoArgs EXCEPT !.to = Some(input[2]),
                                     !.amount = Some(input[3])]])
  ELSE IF Len(input) = 4 /\ input[1] = TransferFromSelector
  THEN Some([name |-> "transferFrom",
             args |-> [NoArgs EXCEPT !.from = Some(input[2]),
                                     !.to = Some(input[3]),
                                     !.amount = Some(input[4])]])
  ELSE IF Len(input) = 3 /\ input[1] = ApproveSelector
  THEN Some([name |-> "approve",
             args |-> [NoArgs EXCEPT !.spender = Some(input[2]),
                                     !.value = Some(input[3])]])
  ELSE None

Amounts == 0 .. MaxAmount

\* The call data the transactions carry: "0x", the three ERC-20 calls, an
\* unknown selector and a truncated transfer.
CallDatas ==
  { << >>, <<UnknownSelector>>, <<TransferSelector, RcptAddr>> }
  \cup { <<TransferSelector, RcptAddr, n>> : n \in Amounts }
  \cup { <<TransferFromSelector, OwnerAddr, RcptAddr, n>> : n \in Amounts }
  \cup { <<ApproveSelector, SpenderAddr, n>> : n \in Amounts }

\* --------------------------------------------------------------------- logs
TransferTopic == "ddf252ad"
ApprovalTopic == "8c5be1e5"

TransferLog(contract, sender, recipient, n) ==
  [contractAddress |-> contract,
   topics |-> <<TransferTopic, sender, recipient>>, data |-> n]

ApprovalLog ==
  [contractAddress |-> TokenAddr,
   topics |-> <<ApprovalTopic, FromAddr, SpenderAddr>>, data |-> MaxAmount]

\* parseLogsForERC20Transfers: the Transfer events among the logs, in log
\* order, each as {contractAddress, amount, senderAddress, recipientAddress};
\* any other log is skipped.
RECURSIVE parseLogsFrom(_, _)
parseLogsFrom(logs, i) ==
  IF i > Len(logs) THEN << >>
  ELSE IF Len(logs[i].topics) = 3 /\ logs[i].topics[1] = TransferTopic
       THEN << [contractAddress |-> logs[i].contractAddress,
                amount |-> logs[i].data,
                senderAddress |-> logs[i].topics[2],
                recipientAddress |-> logs[i].topics[3]] >>
            \o parseLogsFrom(logs, i + 1)
       ELSE parseLogsFrom(logs, i + 1)

parseLogsForERC20Transfers(logs) == parseLogsFrom(logs, 1)

\* The logs a receipt can hold: Transfer events of the token or of an
\* unknown contract, to recipients of which two are one address in two
\* spellings, and an Approval event.
LogKinds ==
  { TransferLog(TokenAddr, FromAddr, r, MaxAmount) :
      r \in {RcptAddr, RcptAddrUC, Rcpt2Addr} }
  \cup { TransferLog(OtherAddr, FromAddr, RcptAddr, MaxAmount), ApprovalLog }

RECURSIVE SeqsUpTo(_, _)
SeqsUpTo(S, n) ==
  IF n = 0 THEN { << >> }
  ELSE LET shorter == SeqsUpTo(S, n - 1)
       IN  shorter \cup { Append(s, x) : s \in shorter, x \in S }

LogLists == SeqsUpTo(LogKinds, MaxLogs)

\* ------------------------------------------------------------- transactions
Tx(to, input, value, blockHash, logs) ==
  [from |-> FromAddr, to |-> to, input |-> input, value |-> value,
   blockHash |-> blockHash, logs |-> logs]

OptAmounts == { None } \cup { Some(n) : n \in Amounts }
OptInputs  == { None } \cup { Some(d) : d \in CallDatas }
OptTo      == { None, Some(TokenAddr), Some(OtherAddr) }
OptHash    == { None, Some("0xb10c") }

\* Every shape of recipient, input, value and block hash, without logs or
\* with one Transfer log of the token.
TxByShape ==
  { Tx(to, input, value, hash, logs) :
      to \in OptTo, input \in OptInputs, value \in OptAmounts,
      hash \in OptHash,
      logs \in { None,
                 Some(<<TransferLog(TokenAddr, FromAddr, RcptAddr,
                                    MaxAmount)>>) } }

\* A contract deployment and a plain send, with every list of logs.
TxByLogs ==
  { Tx(p[1], p[2], p[3], None, Some(logs)) :
      p \in { <<None, None, None>>,
              <<Some(OtherAddr), None, Some(MaxAmount)>> },
      logs \in LogLists }

Transactions == TxByShape \cup TxByLogs

\* The transactions of the chain events: a mined deployment, a plain send,
\* a token transfer, and a deployment whose receipt holds a Transfer log.
EventTransactions ==
  { Tx(None, None, None, Some("0xb10c"), None),
    Tx(Some(OtherAddr), Some(<< >>), Some(MaxAmount), None, None),
    Tx(Some(TokenAddr), Some(<<TransferSelector, RcptAddr, MaxAmount>>),
       None, None, None),
    Tx(None, None, None, None,
       Some(<<TransferLog(TokenAddr, FromAddr, RcptAddr, MaxAmount)>>)) }

\* -------------------------------------------------------------- annotations
\* A TransactionAnnotation; a field the variant does not carry is None.
Annotation(type, timestamp, block) ==
  [type |-> type,
   timestamp |-> timestamp,
   blockTimestamp |-> IF IsSome(block) THEN Some(Get(block).timestamp)
                      ELSE None,
   senderAddress |-> None, recipientAddress |-> None, recipientName |-> None,
   spenderAddress |-> None, spenderName |-> None, contractName |-> None,
   assetAmount |-> None, transactionLogoURL |-> None, subannotations |-> None]

AnnotationTypes ==
  { "contract-deployment", "asset-transfer", "asset-approval",
    "contract-interaction" }

\* (await lookUpName(..)) ?? { name: undefined }, then .name
NameOfResult(result) == IF IsSome(result) THEN Some(Get(result).name) ELSE None

\* The name the naming collaborator holds for an address.
NameFor(address) == normalizeEVMAddress(address) \o <<".eth">>

\* What a lookUpName call that does not reject resolves to: undefined or
\* {name}.
LookUpResults(address) == { None, Some([name |-> NameFor(address)]) }

AnyLookUpResult ==
  UNION { LookUpResults(a) :
            a \in {TokenAddr, OtherAddr, RcptAddr, Rcpt2Addr, SpenderAddr} }

\* What getBlockData resolves to: undefined for a block not yet available.
BlockResults == { None, Some([timestamp |-> 7]) }

\* Date.now() at the start of a resolution.
Clock == { 1000 }

\* Mutant: a deployment whose block is not available is annotated as a
\* plain contract interaction.
DeploymentAnnotation_UnminedIsInteraction(task) ==
  IF IsSome(task.block)
  THEN Annotation("contract-deployment", task.resolvedTime, task.block)
  ELSE Annotation("contract-interaction", task.resolvedTime, task.block)

\* Lines 126-132: a missing recipient means a contract deployment.
DeploymentAnnotation(task) ==
  Annotation("contract-deployment", task.resolvedTime, task.block)

\* Mutant: the value is tested for truth, so a send of 0 is not a transfer.
PlainAnnotation_TruthyValue(task, toName) ==
  IF IsSome(task.tx.value) /\ Get(task.tx.value) # 0
  THEN [Annotation("asset-transfer", task.resolvedTime, task.block) EXCEPT
          !.senderAddress = Some(task.tx.from),
          !.recipientName = toName,
          !.recipientAddress = task.tx.to,
          !.assetAmount = Some(enrichAssetAmountWithDecimalValues(
              [asset |-> network.baseAsset, amount |-> Get(task.tx.value)],
              desiredDecimals))]
  ELSE [Annotation("contract-interaction", task.resolvedTime, task.block)
          EXCEPT !.contractName = toName]

\* Lines 150-174: empty input; a send of the base asset when a value is
\* present, a plain contract interaction otherwise.
PlainAnnotation(task, toName) ==
  IF IsSome(task.tx.value)
  THEN [Annotation("asset-transfer", task.resolvedTime, task.block) EXCEPT
          !.senderAddress = Some(task.tx.from),
          !.recipientName = toName,
          !.recipientAddress = task.tx.to,
          !.assetAmount = Some(enrichAssetAmountWithDecimalValues(
              [asset |-> network.baseAsset, amount |-> Get(task.tx.value)],
              desiredDecimals))]
  ELSE [Annotation("contract-interaction", task.resolvedTime, task.block)
          EXCEPT !.contractName = toName]

\* Lines 185: matchingFungibleAsset?.metadata?.logoURL
transactionLogoURL(matchingFungibleAsset) ==
  IF IsSome(matchingFungibleAsset) THEN Get(matchingFungibleAsset).logoURL
  ELSE None

\* Mutant: the decoded sender of a transferFrom is ignored.
TransferAnnotation_RawSender(task, toName) ==
  LET args == Get(task.erc20Tx).args
  IN  [Annotation("asset-transfer", task.resolvedTime, task.block) EXCEPT
         !.transactionLogoURL = transactionLogoURL(task.matchingFungibleAsset),
         !.senderAddress = Some(task.tx.from),
         !.recipientAddress = args.to,
         !.recipientName = toName,
         !.assetAmount = Some(enrichAssetAmountWithDecimalValues(
             [asset |-> Get(task.matchingFungibleAsset),
              amount |-> Get(args.amount)],
             desiredDecimals))]

\* Lines 200-216: an ERC-20 transfer or transferFrom of a known asset.
TransferAnnotation(task, toName) ==
  LET args == Get(task.erc20Tx).args
  IN  [Annotation("asset-transfer", task.resolvedTime, task.block) EXCEPT
         !.transactionLogoURL = transactionLogoURL(task.matchingFungibleAsset),
         !.senderAddress = IF IsSome(args.from) THEN args.from
                           ELSE Some(task.tx.from),
         !.recipientAddress = args.to,
         !.recipientName = toName,
         !.assetAmount = Some(enrichAssetAmountWithDecimalValues(
             [asset |-> Get(task.matchingFungibleAsset),
              amount |-> Get(args.amount)],
             desiredDecimals))]

\* Lines 227-241: an ERC-20 approve of a known asset.
ApprovalAnnotation(task, spenderName) ==
  LET args == Get(task.erc20Tx).args
  IN  [Annotation("asset-approval", task.resolvedTime, task.block) EXCEPT
         !.transactionLogoURL = transactionLogoURL(task.matchingFungibleAsset),
         !.spenderAddress = args.spender,
         !.spenderName = spenderName,
         !.assetAmount = Some(enrichAssetAmountWithDecimalValues(
             [asset |-> Get(task.matchingFungibleAsset),
              amount |-> Get(args.value)],
             desiredDecimals))]

\* Mutant: the logo is passed on only when the call data decoded.
FallbackAnnotation_LogoIfDecoded(task, toName) ==
  [Annotation("contract-interaction", task.resolvedTime, task.block) EXCEPT
     !.transactionLogoURL =
        IF IsSome(task.erc20Tx)
        THEN transactionLogoURL(task.matchingFungibleAsset) ELSE None,
     !.contractName = toName]

\* Lines 248-258: the standard contract interaction, with the logo when the
\* address has one.
FallbackAnnotation(task, toName) ==
  [Annotation("contract-interaction", task.resolvedTime, task.block) EXCEPT
     !.transactionLogoURL = transactionLogoURL(task.matchingFungibleAsset),
     !.contractName = toName]

\* Lines 133-137: input null, "0x" or undefined.
InputIsEmpty(tx) == tx.input = None \/ tx.input = Some(<< >>)

\* Mutant: the approve branch is missing.
CallDataBranch_ApproveDropped(matchingFungibleAsset, erc20Tx) ==
  IF /\ IsSome(matchingFungibleAsset)
     /\ IsSome(erc20Tx)
     /\ Get(erc20Tx).name \in {"transfer", "transferFrom"}
  THEN "transfer"
  ELSE "fallback"

\* Lines 190-246: which branch the decoded call and the asset match select.
CallDataBranch(matchingFungibleAsset, erc20Tx) ==
  IF /\ IsSome(matchingFungibleAsset)
     /\ IsSome(erc20Tx)
     /\ Get(erc20Tx).name \in {"transfer", "transferFrom"}
  THEN "transfer"
  ELSE IF /\ IsSome(matchingFungibleAsset)
          /\ IsSome(erc20Tx)
          /\ Get(erc20Tx).name = "approve"
  THEN "approve"
  ELSE "fallback"

\* The address whose name the branch looks up (lines 139, 196, 223, 244).
LookUpAddress(tx, branch, erc20Tx) ==
  CASE branch = "transfer" -> Get(Get(erc20Tx).args.to)
    [] branch = "approve"  -> Get(Get(erc20Tx).args.spender)
    [] OTHER               -> Get(tx.to)

\* The primary annotation, once the name lookup of the branch has returned.
PrimaryAnnotation(task, name) ==
  CASE task.branch = "plain"    -> PlainAnnotation(task, name)
    [] task.branch = "transfer" -> TransferAnnotation(task, name)
    [] task.branch = "approve"  -> ApprovalAnnotation(task, name)
    [] OTHER                    -> FallbackAnnotation(task, name)

\* ----------------------------------------------------------- the log pass
\* [...new Set(erc20TransferLogs.map(l => l.recipientAddress))]: the
\* recipient addresses as spelled, each once, in order of first occurrence.
RECURSIVE DistinctFrom(_, _, _)
DistinctFrom(transferLogs, i, seen) ==
  IF i > Len(transferLogs) THEN seen
  ELSE IF \E j \in DOMAIN seen : seen[j] = transferLogs[i].recipientAddress
       THEN DistinctFrom(transferLogs, i + 1, seen)
       ELSE DistinctFrom(transferLogs, i + 1,
                         Append(seen, transferLogs[i].recipientAddress))

DistinctRecipients(transferLogs) == DistinctFrom(transferLogs, 1, << >>)

\* One lookup of the batch: async address => [normalizeEVMAddress(address),
\* (await lookUpName({address, network}))?.name], not yet settled.
PendingLookup(address) ==
  [address |-> address, status |-> "pending", name |-> None]

\* Lines 289-293: the fulfilled results that carry a name, as [key, name]
\* entries in batch order.
RECURSIVE NameEntriesFrom(_, _)
NameEntriesFrom(batch, i) ==
  IF i > Len(batch) THEN << >>
  ELSE IF batch[i].status = "fulfilled" /\ IsSome(batch[i].name)
       THEN << <<normalizeEVMAddress(batch[i].address), Get(batch[i].name)>> >>
            \o NameEntriesFrom(batch, i + 1)
       ELSE NameEntriesFrom(batch, i + 1)

\* Object.fromEntries: a later entry of a key replaces an earlier one.
RECURSIVE FromEntries(_, _, _)
FromEntries(entries, i, obj) ==
  IF i > Len(entries) THEN obj
  ELSE FromEntries(entries, i + 1,
         [k \in DOMAIN obj \cup {entries[i][1]} |->
            IF k = entries[i][1] THEN entries[i][2] ELSE obj[k]])

namesByAddress(batch) == FromEntries(NameEntriesFrom(batch, 1), 1, << >>)

\* namesByAddress[normalizeEVMAddress(recipientAddress)]
RecipientName(names, recipientAddress) ==
  IF normalizeEVMAddress(recipientAddress) \in DOMAIN names
  THEN Some(names[normalizeEVMAddress(recipientAddress)])
  ELSE None

\* Mutant: a subannotation does not carry the block's timestamp.
Subannotation_NoBlockTimestamp(task, log, asset, names) ==
  [Annotation("asset-transfer", task.resolvedTime, None) EXCEPT
     !.assetAmount = Some(enrichAssetAmountWithDecimalValues(
         [asset |-> asset, amount |-> log.amount], desiredDecimals)),
     !.senderAddress = Some(log.senderAddress),
     !.recipientAddress = Some(log.recipientAddress),
     !.recipientName = RecipientName(names, log.recipientAddress)]

\* Lines 310-328: the subannotation of one decoded Transfer log.
Subannotation(task, log, asset, names) ==
  [Annotation("asset-transfer", task.resolvedTime, task.block) EXCEPT
     !.assetAmount = Some(enrichAssetAmountWithDecimalValues(
         [asset |-> asset, amount |-> log.amount], desiredDecimals)),
     !.senderAddress = Some(log.senderAddress),
     !.recipientAddress = Some(log.recipientAddress),
     !.recipientName = RecipientName(names, log.recipientAddress)]

\* Lines 296-330: erc20TransferLogs.flatMap(..): one entry per log whose
\* contract address matches a known fungible asset, in log order.
RECURSIVE SubannotationsFrom(_, _, _, _, _)
SubannotationsFrom(task, transferLogs, assets, names, i) ==
  IF i > Len(transferLogs) THEN << >>
  ELSE LET match == findMatchingFungibleAsset(
                      assets, Some(transferLogs[i].contractAddress))
       IN  (IF IsSome(match)
            THEN << Subannotation(task, transferLogs[i], Get(match), names) >>
            ELSE << >>)
           \o SubannotationsFrom(task, transferLogs, assets, names, i + 1)

\* Mutant: the list is attached even when it is empty.
WithSubannotations_Always(annotation, subannotations) ==
  [annotation EXCEPT !.subannotations = Some(subannotations)]

\* Lines 332-334: the annotation with the subannotations attached when there
\* is at least one.
WithSubannotations(annotation, subannotations) ==
  IF Len(subannotations) > 0
  THEN [annotation EXCEPT !.subannotations = Some(subannotations)]
  ELSE annotation

\* --------------------------------------------------------------- typed data
\* normalizeHexAddress: the lower-case spelling of a hex address.
normalizeHexAddress(address) ==
  [i \in DOMAIN address |-> ToLowerHex(address[i])]

\* The typed data of a signing request: its primary type, the
\* verifyingContract of its domain, and its message.
TypedData(primaryType, verifyingContract, message) ==
  [primaryType |-> primaryType,
   domain |-> [verifyingContract |-> verifyingContract],
   message |-> message]

\* A permit message of an amount, one without spender, and a message of
\* another schema.
PermitMessage(amount) ==
  [owner |-> Some(OwnerAddr), spender |-> Some(SpenderAddr),
   value |-> Some(amount), deadline |-> Some("deadline")]

PartialPermitMessage ==
  [PermitMessage(MaxAmount) EXCEPT !.spender = None]

MailMessage ==
  [owner |-> None, spender |-> None, value |-> None, deadline |-> None]

\* The signing requests: permits of the token in both spellings, of an
\* unknown contract and of a domain without verifyingContract, a request of
\* another primary type and a permit whose message lacks the spender.
SignTypedDataRequests ==
  { [account |-> FromAddr,
     typedData |-> TypedData("Permit", contract, PermitMessage(n))] :
      contract \in { None, Some(TokenAddr), Some(TokenAddrUC),
                     Some(OtherAddr) },
      n \in Amounts }
  \cup { [account |-> FromAddr,
          typedData |-> TypedData("Mail", Some(TokenAddr), MailMessage)],
         [account |-> FromAddr,
          typedData |-> TypedData("Permit", Some(TokenAddr),
                                  PartialPermitMessage)] }

\* isEIP2612TypedData: the typed data has the EIP-2612 permit schema.
isEIP2612TypedData(data) ==
  /\ data.primaryType = "Permit"
  /\ IsSome(data.message.owner)
  /\ IsSome(data.message.spender)
  /\ IsSome(data.message.value)
  /\ IsSome(data.message.deadline)

\* A SignTypedDataAnnotation; unrecognized carries no field.
UnrecognizedAnnotation ==
  [type |-> "unrecognized", asset |-> None, owner |-> None,
   spender |-> None, amount |-> None, deadline |-> None]

\* enrichEIP2612SignTypedDataRequest: the permit annotation of the message,
\* with the corresponding asset when there is one.
enrichEIP2612SignTypedDataRequest(data, correspondingAsset) ==
  [type |-> "eip2612-permit", asset |-> correspondingAsset,
   owner |-> data.message.owner, spender |-> data.message.spender,
   amount |-> data.message.value, deadline |-> data.message.deadline]

\* Lines 375-384: the first asset with a contract address whose normalised
\* spelling is that of the domain's verifyingContract.
findCorrespondingAsset(snapshot, data) ==
  LET contract == data.domain.verifyingContract
      matches ==
        { i \in DOMAIN snapshot :
            /\ IsSome(contract)
            /\ IsSome(snapshot[i].contractAddress)
            /\ normalizeHexAddress(Get(snapshot[i].contractAddress))
                 = normalizeHexAddress(Get(contract)) }
  IN  IF matches = {}
      THEN None
      ELSE Some(snapshot[CHOOSE i \in matches :
                           \A j \in matches : i <= j])

\* Mutant: without a corresponding asset the request stays unrecognized.
TypedDataAnnotation_AssetRequired(call) ==
  IF IsSome(call.correspondingAsset)
  THEN enrichEIP2612SignTypedDataRequest(Get(call.request).typedData,
                                         call.correspondingAsset)
  ELSE UnrecognizedAnnotation

\* Lines 386-390: the annotation of a permit is that of
\* enrichEIP2612SignTypedDataRequest, whatever the corresponding asset.
TypedDataAnnotation(call) ==
  enrichEIP2612SignTypedDataRequest(Get(call.request).typedData,
                                    call.correspondingAsset)

\* Lines 392-395: { ...signTypedDataRequest, annotation }
EnrichedSignTypedDataRequest(request, annotation) ==
  [account |-> request.account, typedData |-> request.typedData,
   annotation |-> annotation]

\* No call of enrichSignTypedDataRequest yet.  consulted names the
\* collaborators the call has used.
IdleTypedData ==
  [pc |-> "idle", request |-> None, correspondingAsset |-> None,
   consulted |-> {}, result |-> None]

\* ------------------------------------------------------ transaction history
\* Transactions.getHistory (src/unnamed/part_000).  A block number is the
\* sequence of hex digits that follows "0x" in the transfer's blockNum.
HexDigits ==
  <<"0", "1", "2", "3", "4", "5", "6", "7", "8", "9",
    "a", "b", "c", "d", "e", "f">>

HexDigitValue(c) == (CHOOSE i \in DOMAIN HexDigits : HexDigits[i] = c) - 1

\* parseInt of a "0x" string: the digits read in base 16, most significant
\* first.
RECURSIVE parseIntFrom(_, _, _)
parseIntFrom(digits, i, acc) ==
  IF i > Len(digits) THEN acc
  ELSE parseIntFrom(digits, i + 1, acc * 16 + HexDigitValue(digits[i]))

parseInt(digits) == parseIntFrom(digits, 1, 0)

\* One entry of the transfers of an alchemy_getAssetTransfers response.
Transfer(hash, blockNum) == [hash |-> hash, blockNum |-> blockNum]

\* The transfers the provider reports: two of block 0x10 and one of the
\* earlier block 0x9, whose spelling sorts after "0x10" as a string.
Transfers ==
  { Transfer("0xaa", <<"1", "0">>),
    Transfer("0xbb", <<"9">>),
    Transfer("0xcc", <<"1", "0">>) }

\* The transfers field of a response: undefined, or a list of transfers.
TransferResponses ==
  { None } \cup { Some(list) : list \in SeqsUpTo(Transfers, MaxTransfers) }

\* Lines 34-35: response.transfers || [].
TransfersOrEmpty(response) == IF IsSome(response) THEN Get(response) ELSE << >>

\* Mutant: the later block first.
CompareBlockNum_Descending(txA, txB) ==
  parseInt(txB.blockNum) - parseInt(txA.blockNum)

\* Lines 36-38: the comparator of the sort.
CompareBlockNum(txA, txB) ==
  parseInt(txA.blockNum) - parseInt(txB.blockNum)

\* Array.prototype.sort with that comparator: ascending and stable, so a
\* transfer is placed after the transfers it does not compare below.
RECURSIVE InsertTransfer(_, _)
InsertTransfer(sorted, transfer) ==
  IF sorted = << >> THEN <<transfer>>
  ELSE LET last == sorted[Len(sorted)]
       IN  IF CompareBlockNum(last, transfer) > 0
           THEN Append(InsertTransfer(SubSeq(sorted, 1, Len(sorted) - 1),
                                      transfer),
                       last)
           ELSE Append(sorted, transfer)

RECURSIVE SortFrom(_, _, _)
SortFrom(transfers, i, sorted) ==
  IF i > Len(transfers) THEN sorted
  ELSE SortFrom(transfers, i + 1, InsertTransfer(sorted, transfers[i]))

\* Lines 33-38: [...toTransfers.transfers || [],
\*               ...fromTransfers.transfers || []].sort(...).
SortedTransfers(toTransfers, fromTransfers) ==
  SortFrom(TransfersOrEmpty(toTransfers) \o TransfersOrEmpty(fromTransfers),
           1, << >>)

\* Lines 41-42: the formatted transaction of a lookup that returned.
FormattedTransaction(hash) == [local |-> FALSE, hash |-> hash]

\* The call of getHistory: its position, its locals (toTransfers,
\* fromTransfers, the sorted transfers, how the callback of each ended and
\* the value of its promise) and the list it returned.
IdleHistory ==
  [pc |-> "idle", toTransfers |-> None, fromTransfers |-> None,
   sorted |-> << >>, settled |-> << >>, resolvedTxs |-> << >>,
   transactions |-> None]

\* -------------------------------------------------------------------- state
VARIABLES
  serviceState,  \* "uninitialized", "starting" or "running"
  listeners,     \* handlers registered on the chain service's "transaction"
  assets,        \* the indexing collaborator's known-asset list
  tasks,         \* the resolutions, one per event or call
  emitted,       \* the enrichedEVMTransaction events emitted, in order
  emittedSignatureRequests,
                 \* the enrichedEVMTransactionSignatureRequest events
  typedData,     \* the call of enrichSignTypedDataRequest
  emittedTypedDataRequests,
                 \* the enrichedSignTypedDataRequest events
  history        \* the call of Transactions.getHistory

\* The state of the request/response operations.
requestVars ==
  <<emittedSignatureRequests, typedData, emittedTypedDataRequests, history>>

vars == <<serviceState, listeners, assets, tasks, emitted, requestVars>>

Tasks == 1 .. MaxEvents

\* The accounts the event of a resolution is for.
EventAccounts(t) == { <<"account", t>> }

\* A resolution not yet started.  pc names the call the resolution is
\* suspended on; failed names the collaborator calls that rejected; handlers
\* counts the registered handlers the event was delivered to.
IdleTask ==
  [pc |-> "idle", caller |-> "none",
   tx |-> Tx(None, None, None, None, None), forAccounts |-> {},
   resolvedTime |-> 0, block |-> None, blockCalls |-> 0,
   primaryAssets |-> None, matchingFungibleAsset |-> None, erc20Tx |-> None,
   branch |-> "none", lookUp |-> None, annotation |-> None,
   logAssets |-> None, transferLogs |-> << >>, batch |-> << >>,
   failed |-> {}, result |-> None, handlers |-> 0]

\* A resolution suspended on a collaborator call.
InFlight(task) ==
  task.pc \in {"getBlockData", "getCachedAssets", "lookUpName",
               "getCachedAssetsForLogs", "allSettled"}

\* Lines 262-264: after the primary annotation; the log pass starts with a
\* read of the asset list when the transaction carries logs, and the
\* annotation is returned otherwise.
LogPass(task) ==
  IF IsSome(task.tx.logs)
  THEN [task EXCEPT !.pc = "getCachedAssetsForLogs"]
  ELSE [task EXCEPT !.pc = "resolved"]

\* Mutant: the deployment branch does not assign the annotation.
Classify_DeploymentUnassigned(task) ==
  IF ~IsSome(task.tx.to)
  THEN LogPass(task)
  ELSE IF InputIsEmpty(task.tx)
  THEN [task EXCEPT !.pc = "lookUpName", !.branch = "plain",
                    !.lookUp = task.tx.to]
  ELSE [task EXCEPT !.pc = "getCachedAssets"]

\* Mutant: the empty-input test comes before the recipient test, so a
\* deployment without input takes the plain branch and looks up the name of
\* an undefined address (<< >>).
Classify_InputFirst(task) ==
  IF InputIsEmpty(task.tx)
  THEN [task EXCEPT !.pc = "lookUpName", !.branch = "plain",
                    !.lookUp = Some(IF IsSome(task.tx.to)
                                    THEN Get(task.tx.to) ELSE << >>)]
  ELSE IF ~IsSome(task.tx.to)
  THEN LogPass([task EXCEPT !.annotation = Some(DeploymentAnnotation(task))])
  ELSE [task EXCEPT !.pc = "getCachedAssets"]

\* Lines 126-176: the classification up to its first collaborator call.
Classify(task) ==
  IF ~IsSome(task.tx.to)
  THEN LogPass([task EXCEPT !.annotation = Some(DeploymentAnnotation(task))])
  ELSE IF InputIsEmpty(task.tx)
  THEN [task EXCEPT !.pc = "lookUpName", !.branch = "plain",
                    !.lookUp = task.tx.to]
  ELSE [task EXCEPT !.pc = "getCachedAssets"]

\* Lines 114-124: resolveTransactionAnnotation up to its first collaborator
\* call: the block is fetched when the transaction names a block hash.
BeginResolve(caller, tx, forAccounts, now) ==
  LET task == [IdleTask EXCEPT !.caller = caller, !.tx = tx,
                               !.forAccounts = forAccounts,
                               !.resolvedTime = now]
  IN  IF IsSome(tx.blockHash)
      THEN [task EXCEPT !.pc = "getBlockData", !.blockCalls = 1]
      ELSE Classify(task)

\* { ...transaction, annotation }
Enriched(tx, annotation) ==
  [from |-> tx.from, to |-> tx.to, input |-> tx.input, value |-> tx.value,
   blockHash |-> tx.blockHash, logs |-> tx.logs, annotation |-> annotation]

Init ==
  /\ serviceState = "uninitialized"
  /\ listeners = 0
  /\ assets \in AssetSnapshots
  /\ tasks = [t \in Tasks |-> IdleTask]
  /\ emitted = << >>
  /\ emittedSignatureRequests = << >>
  /\ typedData = IdleTypedData
  /\ emittedTypedDataRequests = << >>
  /\ history = IdleHistory

\* ------------------------------------------------------------ the service
\* startService: uninitialized -> starting.
StartService ==
  /\ serviceState = "uninitialized"
  /\ serviceState' = "starting"
  /\ UNCHANGED <<listeners, assets, tasks, emitted, requestVars>>

\* Mutant: the handler is registered twice.
ConnectChainServiceEvents_Twice ==
  /\ serviceState = "starting"
  /\ listeners' = listeners + 2
  /\ serviceState' = "running"
  /\ UNCHANGED <<assets, tasks, emitted, requestVars>>

\* Lines 83-102: internalStartService registers the handler of the chain
\* service's "transaction" events; the service is running.
ConnectChainServiceEvents ==
  /\ serviceState = "starting"
  /\ listeners' = listeners + 1
  /\ serviceState' = "running"
  /\ UNCHANGED <<assets, tasks, emitted, requestVars>>

\* Mutant: an event waits for the resolutions before it to end.
TransactionEvent_Serial(t, tx, forAccounts, now) ==
  /\ tasks[t].pc = "idle"
  /\ \A u \in Tasks : u < t => tasks[u].pc # "idle"
  /\ \A u \in Tasks : ~InFlight(tasks[u]) /\ tasks[u].pc # "resolved"
  /\ tasks' = [tasks EXCEPT ![t] =
       IF listeners = 0
       THEN [IdleTask EXCEPT !.pc = "unheard", !.tx = tx,
                             !.forAccounts = forAccounts]
       ELSE [BeginResolve("handler", tx, forAccounts, now)
               EXCEPT !.handlers = listeners]]
  /\ UNCHANGED <<serviceState, listeners, assets, emitted, requestVars>>

\* The chain service emits "transaction": every registered handler calls
\* enrichTransaction (lines 92-99); with no handler the event is lost.
TransactionEvent(t, tx, forAccounts, now) ==
  /\ tasks[t].pc = "idle"
  /\ \A u \in Tasks : u < t => tasks[u].pc # "idle"
  /\ tasks' = [tasks EXCEPT ![t] =
       IF listeners = 0
       THEN [IdleTask EXCEPT !.pc = "unheard", !.tx = tx,
                             !.forAccounts = forAccounts]
       ELSE [BeginResolve("handler", tx, forAccounts, now)
               EXCEPT !.handlers = listeners]]
  /\ UNCHANGED <<serviceState, listeners, assets, emitted, requestVars>>

\* Lines 405-416: a direct call of enrichTransaction.
EnrichTransactionCall(t, tx, now) ==
  /\ tasks[t].pc = "idle"
  /\ tasks' = [tasks EXCEPT ![t] = BeginResolve("direct", tx, {}, now)]
  /\ UNCHANGED <<serviceState, listeners, assets, emitted, requestVars>>

\* The indexing collaborator replaces its asset list.
IndexingUpdate(snapshot) ==
  /\ snapshot # assets
  /\ assets' = snapshot
  /\ UNCHANGED <<serviceState, listeners, tasks, emitted, requestVars>>

\* ------------------------------------------------- steps of a resolution
\* A rejected await of resolveTransactionAnnotation: nothing in it, in
\* enrichTransaction or in the event handler catches, so the rejection ends
\* the resolution and leaves through the caller.
Rejects(task, call) ==
  [task EXCEPT !.pc = "rejected", !.failed = task.failed \cup {call}]

\* Lines 119-124: getBlockData returns the block, or undefined.
GetBlockDataReturn(t, block) ==
  /\ tasks[t].pc = "getBlockData"
  /\ tasks' = [tasks EXCEPT ![t] = Classify([tasks[t] EXCEPT !.block = block])]
  /\ UNCHANGED <<serviceState, listeners, assets, emitted, requestVars>>

GetBlockDataReject(t) ==
  /\ tasks[t].pc = "getBlockData"
  /\ tasks' = [tasks EXCEPT ![t] = Rejects(tasks[t], "getBlockData")]
  /\ UNCHANGED <<serviceState, listeners, assets, emitted, requestVars>>

\* Mutant: the lookups of the log pass are started together with the name
\* lookup of the primary classification.
AfterCachedAssets_EagerLogLookups(task, snapshot) ==
  LET match  == findMatchingFungibleAsset(snapshot, task.tx.to)
      erc20  == parseERC20Tx(Get(task.tx.input))
      branch == CallDataBranch(match, erc20)
      addresses ==
        IF IsSome(task.tx.logs)
        THEN DistinctRecipients(parseLogsForERC20Transfers(Get(task.tx.logs)))
        ELSE << >>
  IN  [task EXCEPT !.pc = "lookUpName",
                   !.primaryAssets = Some(snapshot),
                   !.matchingFungibleAsset = match,
                   !.erc20Tx = erc20,
                   !.branch = branch,
                   !.lookUp = Some(LookUpAddress(task.tx, branch, erc20)),
                   !.batch = [i \in DOMAIN addresses |->
                                PendingLookup(addresses[i])]]

\* Lines 176-246: getCachedAssets returns the current list; the recipient is
\* matched, the input decoded, and the name lookup of the selected branch is
\* started.
AfterCachedAssets(task, snapshot) ==
  LET match  == findMatchingFungibleAsset(snapshot, task.tx.to)
      erc20  == parseERC20Tx(Get(task.tx.input))
      branch == CallDataBranch(match, erc20)
  IN  [task EXCEPT !.pc = "lookUpName",
                   !.primaryAssets = Some(snapshot),
                   !.matchingFungibleAsset = match,
                   !.erc20Tx = erc20,
                   !.branch = branch,
                   !.lookUp = Some(LookUpAddress(task.tx, branch, erc20))]

GetCachedAssetsReturn(t) ==
  /\ tasks[t].pc = "getCachedAssets"
  /\ tasks' = [tasks EXCEPT ![t] = AfterCachedAssets(tasks[t], assets)]
  /\ UNCHANGED <<serviceState, listeners, assets, emitted, requestVars>>

\* Lines 138-141, 195-198, 222-225, 243-246: the awaited lookUpName returns;
\* the primary annotation is built and the log pass begins.
AfterLookUpName(task, result) ==
  LogPass([task EXCEPT !.annotation =
             Some(PrimaryAnnotation(task, NameOfResult(result)))])

LookUpNameReturn(t, result) ==
  /\ tasks[t].pc = "lookUpName"
  /\ result \in LookUpResults(Get(tasks[t].lookUp))
  /\ tasks' = [tasks EXCEPT ![t] = AfterLookUpName(tasks[t], result)]
  /\ UNCHANGED <<serviceState, listeners, assets, emitted, requestVars>>

\* The awaited lookUpName rejects.
AfterLookUpNameRejection(task) == Rejects(task, "lookUpName")

LookUpNameReject(t) ==
  /\ tasks[t].pc = "lookUpName"
  /\ tasks' = [tasks EXCEPT ![t] = AfterLookUpNameRejection(tasks[t])]
  /\ UNCHANGED <<serviceState, listeners, assets, emitted, requestVars>>

\* Lines 264-287: the second read of the asset list; the logs are decoded
\* and one lookup per distinct recipient spelling is started, all at once.
AfterCachedAssetsForLogs(task, snapshot) ==
  LET transferLogs == parseLogsForERC20Transfers(Get(task.tx.logs))
      addresses    == DistinctRecipients(transferLogs)
  IN  [task EXCEPT !.pc = "allSettled",
                   !.logAssets = Some(snapshot),
                   !.transferLogs = transferLogs,
                   !.batch = [i \in DOMAIN addresses |->
                                PendingLookup(addresses[i])]]

GetCachedAssetsForLogsReturn(t) ==
  /\ tasks[t].pc = "getCachedAssetsForLogs"
  /\ tasks' = [tasks EXCEPT ![t] = AfterCachedAssetsForLogs(tasks[t], assets)]
  /\ UNCHANGED <<serviceState, listeners, assets, emitted, requestVars>>

\* One lookup of the batch is fulfilled with [key, name or undefined].
BatchLookUpReturn(t, i, result) ==
  /\ tasks[t].pc = "allSettled"
  /\ i \in DOMAIN tasks[t].batch
  /\ tasks[t].batch[i].status = "pending"
  /\ result \in LookUpResults(tasks[t].batch[i].address)
  /\ tasks' = [tasks EXCEPT ![t].batch[i] =
       [@ EXCEPT !.status = "fulfilled", !.name = NameOfResult(result)]]
  /\ UNCHANGED <<serviceState, listeners, assets, emitted, requestVars>>

\* One lookup of the batch rejects.
BatchLookUpReject(t, i) ==
  /\ tasks[t].pc = "allSettled"
  /\ i \in DOMAIN tasks[t].batch
  /\ tasks[t].batch[i].status = "pending"
  /\ tasks' = [tasks EXCEPT ![t].batch[i].status = "rejected",
                            ![t].failed = @ \cup {"batchLookUp"}]
  /\ UNCHANGED <<serviceState, listeners, assets, emitted, requestVars>>

\* Mutant: the batch is awaited like a race: it resolves with the first
\* lookup that settles.
allSettled_FirstSettled(batch) ==
  batch = << >> \/ \E i \in DOMAIN batch : batch[i].status # "pending"

\* Promise.allSettled resolves once no promise of the batch is pending.
allSettled(batch) == \A i \in DOMAIN batch : batch[i].status # "pending"

\* Mutant: the logs are deleted from the transaction once they have been
\* annotated.
AfterAllSettled_DropsLogs(task) ==
  LET names == namesByAddress(task.batch)
      subannotations ==
        SubannotationsFrom(task, task.transferLogs, Get(task.logAssets),
                           names, 1)
  IN  [task EXCEPT !.pc = "resolved",
                   !.tx = [task.tx EXCEPT !.logs = None],
                   !.annotation =
                      Some(WithSubannotations(Get(task.annotation),
                                              subannotations))]

\* Mutant: the logs are matched against the asset list read for the primary
\* classification when there is one.
AfterAllSettled_FirstSnapshot(task) ==
  LET names == namesByAddress(task.batch)
      subannotations ==
        SubannotationsFrom(task, task.transferLogs,
                           IF IsSome(task.primaryAssets)
                           THEN Get(task.primaryAssets)
                           ELSE Get(task.logAssets),
                           names, 1)
  IN  [task EXCEPT !.pc = "resolved",
                   !.annotation =
                      Some(WithSubannotations(Get(task.annotation),
                                              subannotations))]

\* Lines 268-337: the batch has settled; the names are collected, the
\* subannotations built and attached, and the annotation is returned.
AfterAllSettled(task) ==
  LET names == namesByAddress(task.batch)
      subannotations ==
        SubannotationsFrom(task, task.transferLogs, Get(task.logAssets),
                           names, 1)
  IN  [task EXCEPT !.pc = "resolved",
                   !.annotation =
                      Some(WithSubannotations(Get(task.annotation),
                                              subannotations))]

AllSettledReturn(t) ==
  /\ tasks[t].pc = "allSettled"
  /\ allSettled(tasks[t].batch)
  /\ tasks' = [tasks EXCEPT ![t] = AfterAllSettled(tasks[t])]
  /\ UNCHANGED <<serviceState, listeners, assets, emitted, requestVars>>

\* Lines 409-418: enrichTransaction returns { ...transaction, annotation }
\* to a direct caller.
EnrichTransactionReturn(t) ==
  /\ tasks[t].pc = "resolved"
  /\ tasks[t].caller = "direct"
  /\ tasks' = [tasks EXCEPT ![t].pc = "returned",
                            ![t].result = Some(Enriched(tasks[t].tx,
                                                        tasks[t].annotation))]
  /\ UNCHANGED <<serviceState, listeners, assets, emitted, requestVars>>

\* Mutant: the handler emits the enriched transaction without the event's
\* forAccounts.
EmitEnrichedEVMTransaction_NoAccounts(t) ==
  /\ tasks[t].pc = "resolved"
  /\ tasks[t].caller = "handler"
  /\ emitted' = Append(emitted,
       [transaction |-> Enriched(tasks[t].tx, tasks[t].annotation),
        forAccounts |-> {}])
  /\ tasks' = [tasks EXCEPT ![t].pc = "emitted"]
  /\ UNCHANGED <<serviceState, listeners, assets, requestVars>>

\* Lines 93-99: the handler emits enrichedEVMTransaction with the enriched
\* transaction and the event's forAccounts.
EmitEnrichedEVMTransaction(t) ==
  /\ tasks[t].pc = "resolved"
  /\ tasks[t].caller = "handler"
  /\ emitted' = Append(emitted,
       [transaction |-> Enriched(tasks[t].tx, tasks[t].annotation),
        forAccounts |-> tasks[t].forAccounts])
  /\ tasks' = [tasks EXCEPT ![t].pc = "emitted"]
  /\ UNCHANGED <<serviceState, listeners, assets, requestVars>>

\* ------------------------------------------------ the request operations
\* The partial transaction requests to sign: any of recipient, input and
\* value may be absent; a request has neither block hash nor logs.
SignatureRequests ==
  { Tx(to, input, value, None, None) :
      to \in OptTo, input \in OptInputs, value \in OptAmounts }

\* Lines 340-354: a call of enrichTransactionSignature awaits the
\* annotation of the request.
EnrichTransactionSignatureCall(t, request, now) ==
  /\ tasks[t].pc = "idle"
  /\ tasks' = [tasks EXCEPT ![t] = BeginResolve("signature", request, {}, now)]
  /\ UNCHANGED <<serviceState, listeners, assets, emitted, requestVars>>

\* Lines 345-359: with the annotation resolved, enrichTransactionSignature
\* emits enrichedEVMTransactionSignatureRequest with
\* { ...transaction, annotation } and returns that object.
EnrichTransactionSignatureReturn(t) ==
  /\ tasks[t].pc = "resolved"
  /\ tasks[t].caller = "signature"
  /\ emittedSignatureRequests' =
       Append(emittedSignatureRequests,
              Enriched(tasks[t].tx, tasks[t].annotation))
  /\ tasks' = [tasks EXCEPT ![t].pc = "returned",
                            ![t].result = Some(Enriched(tasks[t].tx,
                                                        tasks[t].annotation))]
  /\ UNCHANGED <<serviceState, listeners, assets, emitted, typedData,
                 emittedTypedDataRequests, history>>

\* Lines 362-373, 392-402: a call of enrichSignTypedDataRequest.  A permit
\* awaits the asset list; any other request is annotated unrecognized,
\* emitted and returned without an await.
EnrichSignTypedDataRequestCall(request) ==
  /\ typedData.pc = "idle"
  /\ IF isEIP2612TypedData(request.typedData)
     THEN /\ typedData' = [IdleTypedData EXCEPT
                             !.pc = "getCachedAssets",
                             !.request = Some(request),
                             !.consulted = {"getCachedAssets"}]
          /\ UNCHANGED emittedTypedDataRequests
     ELSE /\ typedData' = [IdleTypedData EXCEPT
                             !.pc = "returned",
                             !.request = Some(request),
                             !.result = Some(EnrichedSignTypedDataRequest(
                                               request,
                                               UnrecognizedAnnotation))]
          /\ emittedTypedDataRequests' =
               Append(emittedTypedDataRequests,
                      EnrichedSignTypedDataRequest(request,
                                                   UnrecognizedAnnotation))
  /\ UNCHANGED <<serviceState, listeners, assets, tasks, emitted,
                 emittedSignatureRequests, history>>

\* Lines 374-390: getCachedAssets returns; the corresponding asset is
\* looked for and enrichEIP2612SignTypedDataRequest is awaited.
TypedDataAssetsReturn ==
  /\ typedData.pc = "getCachedAssets"
  /\ typedData' = [typedData EXCEPT
       !.pc = "enrichEIP2612SignTypedDataRequest",
       !.correspondingAsset =
          findCorrespondingAsset(assets, Get(typedData.request).typedData),
       !.consulted = @ \cup {"enrichEIP2612SignTypedDataRequest"}]
  /\ UNCHANGED <<serviceState, listeners, assets, tasks, emitted,
                 emittedSignatureRequests, emittedTypedDataRequests,
                 history>>

\* Lines 386-402: the permit annotation returns; the enriched request is
\* emitted as enrichedSignTypedDataRequest and returned.
EnrichEIP2612Return ==
  /\ typedData.pc = "enrichEIP2612SignTypedDataRequest"
  /\ typedData' = [typedData EXCEPT
       !.pc = "returned",
       !.result = Some(EnrichedSignTypedDataRequest(
                         Get(typedData.request),
                         TypedDataAnnotation(typedData)))]
  /\ emittedTypedDataRequests' =
       Append(emittedTypedDataRequests,
              EnrichedSignTypedDataRequest(Get(typedData.request),
                                           TypedDataAnnotation(typedData)))
  /\ UNCHANGED <<serviceState, listeners, assets, tasks, emitted,
                 emittedSignatureRequests, history>>

\* ---------------------------------------------------------- specifications
Resolution(t) ==
  \/ \E block \in BlockResults : GetBlockDataReturn(t, block)
  \/ GetBlockDataReject(t)
  \/ GetCachedAssetsReturn(t)
  \/ \E result \in AnyLookUpResult : LookUpNameReturn(t, result)
  \/ LookUpNameReject(t)
  \/ GetCachedAssetsForLogsReturn(t)
  \/ \E i \in 1 .. MaxLogs, result \in AnyLookUpResult :
       BatchLookUpReturn(t, i, result)
  \/ \E i \in 1 .. MaxLogs : BatchLookUpReject(t, i)
  \/ AllSettledReturn(t)

\* The service: started once, then resolving the chain's transaction events
\* while the indexing collaborator updates its list.
Next ==
  \/ StartService
  \/ ConnectChainServiceEvents
  \/ \E t \in Tasks, tx \in EventTransactions, now \in Clock :
       TransactionEvent(t, tx, EventAccounts(t), now)
  \/ \E t \in Tasks : Resolution(t)
  \/ \E t \in Tasks : EmitEnrichedEVMTransaction(t)
  \/ \E snapshot \in AssetSnapshots : IndexingUpdate(snapshot)

Spec == Init /\ [][Next]_vars

\* One direct call of enrichTransaction, over every shape of transaction.
NextResolve ==
  \/ \E tx \in Transactions, now \in Clock : EnrichTransactionCall(1, tx, now)
  \/ Resolution(1)
  \/ EnrichTransactionReturn(1)
  \/ \E snapshot \in AssetSnapshots : IndexingUpdate(snapshot)

SpecResolve == Init /\ [][NextResolve]_vars

\* The service and its events alone.  The updates of the asset list are left
\* out: they change what a read of the list returns, not whether a call
\* returns, and every resolution reads one of the lists of Init.
NextLive ==
  \/ StartService
  \/ ConnectChainServiceEvents
  \/ \E t \in Tasks, tx \in EventTransactions, now \in Clock :
       TransactionEvent(t, tx, EventAccounts(t), now)
  \/ \E t \in Tasks : Resolution(t)
  \/ \E t \in Tasks : EmitEnrichedEVMTransaction(t)

\* The service under the scheduling of the event loop: a collaborator call
\* in flight settles, by returning or by rejecting, and the continuation of
\* a settled call runs; the handler's emit follows its resolved await.
SpecLive ==
  /\ Init
  /\ [][NextLive]_vars
  /\ \A t \in Tasks :
       /\ WF_vars(Resolution(t))
       /\ WF_vars(EmitEnrichedEVMTransaction(t))

\* One call of enrichTransactionSignature, over every partial request; a
\* request has neither block hash nor logs, so the resolution reads the
\* asset list and looks up one name at most.
NextSignature ==
  \/ \E request \in SignatureRequests, now \in Clock :
       EnrichTransactionSignatureCall(1, request, now)
  \/ GetCachedAssetsReturn(1)
  \/ \E result \in AnyLookUpResult : LookUpNameReturn(1, result)
  \/ LookUpNameReject(1)
  \/ EnrichTransactionSignatureReturn(1)
  \/ \E snapshot \in AssetSnapshots : IndexingUpdate(snapshot)

SpecSignature == Init /\ [][NextSignature]_vars

\* One call of enrichSignTypedDataRequest.
NextTypedData ==
  \/ \E request \in SignTypedDataRequests :
       EnrichSignTypedDataRequestCall(request)
  \/ TypedDataAssetsReturn
  \/ EnrichEIP2612Return
  \/ \E snapshot \in AssetSnapshots : IndexingUpdate(snapshot)

SpecTypedData == Init /\ [][NextTypedData]_vars

\* The requests of the operations run side by side: a deployment, a plain
\* send and a token transfer to sign; a permit of the token and a request of
\* another primary type.
ConcurrentSignatureRequests ==
  { Tx(None, None, None, None, None),
    Tx(Some(OtherAddr), Some(<< >>), Some(MaxAmount), None, None),
    Tx(Some(TokenAddr), Some(<<TransferSelector, RcptAddr, MaxAmount>>),
       None, None, None) }

ConcurrentTypedDataRequests ==
  { [account |-> FromAddr,
     typedData |-> TypedData("Permit", Some(TokenAddr),
                             PermitMessage(MaxAmount))],
    [account |-> FromAddr,
     typedData |-> TypedData("Mail", Some(TokenAddr), MailMessage)] }

\* Every operation of the service side by side: the started service
\* handles a chain event in resolution 1 while a caller's
\* enrichTransaction or enrichTransactionSignature runs in resolution 2 and
\* another's enrichSignTypedDataRequest runs, and the indexing collaborator
\* updates its list.
NextConcurrent ==
  \/ StartService
  \/ ConnectChainServiceEvents
  \/ \E tx \in EventTransactions, now \in Clock :
       TransactionEvent(1, tx, EventAccounts(1), now)
  \/ \E tx \in EventTransactions, now \in Clock :
       EnrichTransactionCall(2, tx, now)
  \/ \E request \in ConcurrentSignatureRequests, now \in Clock :
       EnrichTransactionSignatureCall(2, request, now)
  \/ \E t \in Tasks : Resolution(t)
  \/ EmitEnrichedEVMTransaction(1)
  \/ EnrichTransactionReturn(2)
  \/ EnrichTransactionSignatureReturn(2)
  \/ \E request \in ConcurrentTypedDataRequests :
       EnrichSignTypedDataRequestCall(request)
  \/ TypedDataAssetsReturn
  \/ EnrichEIP2612Return
  \/ \E snapshot \in AssetSnapshots : IndexingUpdate(snapshot)

SpecConcurrent == Init /\ [][NextConcurrent]_vars

\* Two resolutions to compare: a deployment, a plain send and a token
\* transfer, each with and without block hash, the deployment and the
\* transfer with a Transfer log of the token.
PairTransactions ==
  { Tx(p[1], p[2], p[3], hash, p[4]) :
      p \in { <<None, None, None,
                Some(<<TransferLog(TokenAddr, FromAddr, RcptAddr,
                                   MaxAmount)>>)>>,
              <<Some(OtherAddr), Some(<< >>), Some(MaxAmount), None>>,
              <<Some(TokenAddr),
                Some(<<TransferSelector, RcptAddr, MaxAmount>>), None,
                Some(<<TransferLog(TokenAddr, FromAddr, RcptAddr,
                                   MaxAmount)>>)>> },
      hash \in OptHash }

\* The times of the second resolution: that of the first, or later.
PairClock == { 1000, 2000 }

\* Two transactions that agree on recipient, input, value and logs.
SameRequest(txA, txB) ==
  /\ txA.to = txB.to
  /\ txA.input = txB.input
  /\ txA.value = txB.value
  /\ txA.logs = txB.logs

\* One call of enrichTransaction and, once it has returned, a second call
\* for a transaction that agrees with the first on recipient, input, value
\* and logs, at the same time or later.
NextPair ==
  \/ \E tx \in PairTransactions, now \in Clock :
       EnrichTransactionCall(1, tx, now)
  \/ /\ tasks[1].pc = "returned"
     /\ \E tx \in PairTransactions, now \in PairClock :
          /\ SameRequest(tasks[1].tx, tx)
          /\ EnrichTransactionCall(2, tx, now)
  \/ \E t \in Tasks : Resolution(t)
  \/ \E t \in {1, 2} : EnrichTransactionReturn(t)
  \/ \E snapshot \in AssetSnapshots : IndexingUpdate(snapshot)

SpecPair == Init /\ [][NextPair]_vars

\* ---------------------------------------------------- Transactions.getHistory
\* Lines 13-14: getHistory is called and awaits eth_blockNumber.
GetHistoryCall ==
  /\ history.pc = "idle"
  /\ history' = [IdleHistory EXCEPT !.pc = "eth_blockNumber"]
  /\ UNCHANGED <<serviceState, listeners, assets, tasks, emitted,
                 emittedSignatureRequests, typedData,
                 emittedTypedDataRequests>>

\* Lines 14-15: the block number returns; getFiatValue is awaited.
BlockNumberReturn ==
  /\ history.pc = "eth_blockNumber"
  /\ history' = [history EXCEPT !.pc = "getFiatValue"]
  /\ UNCHANGED <<serviceState, listeners, assets, tasks, emitted,
                 emittedSignatureRequests, typedData,
                 emittedTypedDataRequests>>

\* Lines 15-25: the fiat value returns; the transfers to the address are
\* asked for.
FiatValueReturn ==
  /\ history.pc = "getFiatValue"
  /\ history' = [history EXCEPT !.pc = "toTransfers"]
  /\ UNCHANGED <<serviceState, listeners, assets, tasks, emitted,
                 emittedSignatureRequests, typedData,
                 emittedTypedDataRequests>>

\* Lines 20-32: the transfers to the address return; the transfers from it
\* are asked for.
ToTransfersReturn(response) ==
  /\ history.pc = "toTransfers"
  /\ history' = [history EXCEPT !.pc = "fromTransfers",
                                !.toTransfers = response]
  /\ UNCHANGED <<serviceState, listeners, assets, tasks, emitted,
                 emittedSignatureRequests, typedData,
                 emittedTypedDataRequests>>

\* Lines 27-46: the transfers from the address return; both lists are
\* joined and sorted, and the callback of map starts one
\* eth_getTransactionByHash per transfer before Promise.allSettled is
\* awaited.
FromTransfersReturn(response) ==
  /\ history.pc = "fromTransfers"
  /\ LET sorted == SortedTransfers(history.toTransfers, response)
     IN  history' = [history EXCEPT
           !.pc = "allSettled",
           !.fromTransfers = response,
           !.sorted = sorted,
           !.settled = [i \in DOMAIN sorted |-> "pending"],
           !.resolvedTxs = [i \in DOMAIN sorted |-> None]]
  /\ UNCHANGED <<serviceState, listeners, assets, tasks, emitted,
                 emittedSignatureRequests, typedData,
                 emittedTypedDataRequests>>

\* Lines 14-32: eth_blockNumber, getFiatValue or alchemy_getAssetTransfers
\* rejects; no try surrounds them, so getHistory rejects.
GetHistoryReject ==
  /\ history.pc \in {"eth_blockNumber", "getFiatValue", "toTransfers",
                     "fromTransfers"}
  /\ history' = [history EXCEPT !.pc = "rejected"]
  /\ UNCHANGED <<serviceState, listeners, assets, tasks, emitted,
                 emittedSignatureRequests, typedData,
                 emittedTypedDataRequests>>

\* Lines 39-42: the lookup of the i-th sorted transfer returns and the
\* callback's promise is fulfilled with the formatted transaction.
GetTransactionByHashReturn(i) ==
  /\ history.pc = "allSettled"
  /\ i \in DOMAIN history.sorted
  /\ history.settled[i] = "pending"
  /\ history' = [history EXCEPT
       !.settled[i] = "returned",
       !.resolvedTxs[i] = Some(FormattedTransaction(history.sorted[i].hash))]
  /\ UNCHANGED <<serviceState, listeners, assets, tasks, emitted,
                 emittedSignatureRequests, typedData,
                 emittedTypedDataRequests>>

\* Lines 40-45: the lookup of the i-th sorted transfer rejects; catch logs
\* the error and the callback's promise is fulfilled with undefined (a
\* throw of formatTransaction ends the callback the same way).
GetTransactionByHashReject(i) ==
  /\ history.pc = "allSettled"
  /\ i \in DOMAIN history.sorted
  /\ history.settled[i] = "pending"
  /\ history' = [history EXCEPT !.settled[i] = "caught",
                                !.resolvedTxs[i] = None]
  /\ UNCHANGED <<serviceState, listeners, assets, tasks, emitted,
                 emittedSignatureRequests, typedData,
                 emittedTypedDataRequests>>

\* Lines 33, 48-51: every promise has settled; the value of each is pushed
\* in the order of the promises and the list is returned.
GetHistoryReturn ==
  /\ history.pc = "allSettled"
  /\ \A i \in DOMAIN history.settled : history.settled[i] # "pending"
  /\ history' = [history EXCEPT
       !.pc = "returned",
       !.transactions =
          Some([i \in DOMAIN history.resolvedTxs |-> history.resolvedTxs[i]])]
  /\ UNCHANGED <<serviceState, listeners, assets, tasks, emitted,
                 emittedSignatureRequests, typedData,
                 emittedTypedDataRequests>>

\* One call of getHistory.
NextHistory ==
  \/ GetHistoryCall
  \/ BlockNumberReturn
  \/ FiatValueReturn
  \/ \E response \in TransferResponses : ToTransfersReturn(response)
  \/ \E response \in TransferResponses : FromTransfersReturn(response)
  \/ GetHistoryReject
  \/ \E i \in 1 .. 2 * MaxTransfers : GetTransactionByHashReturn(i)
  \/ \E i \in 1 .. 2 * MaxTransfers : GetTransactionByHashReject(i)
  \/ GetHistoryReturn

SpecHistory == Init /\ [][NextHistory]_vars

\* ------------------------------------------------------------------ claims
\* A resolution whose annotation has been returned by
\* resolveTransactionAnnotation.
Resolved(t) == tasks[t].pc \in {"resolved", "returned", "emitted"}

annotationOf(t) == Get(tasks[t].annotation)

\* The fungible assets of a list whose contract address is the given
\* address in some spelling.
KnownAssetsAt(snapshot, address) ==
  { snapshot[i] : i \in { j \in DOMAIN snapshot :
      /\ IsSome(snapshot[j].contractAddress)
      /\ normalizeEVMAddress(Get(snapshot[j].contractAddress))
           = normalizeEVMAddress(address) } }

\* The decoded call of a transaction with non-empty input.
DecodedCall(t) == parseERC20Tx(Get(tasks[t].tx.input))

HasCallData(t) == IsSome(tasks[t].tx.to) /\ ~InputIsEmpty(tasks[t].tx)

\* C1: every resolution that returns has an annotation of exactly one of the
\* four types, and a resolution is only ever ended without an annotation by
\* a collaborator call that failed; the enriched transaction returned to the
\* caller carries that annotation.
C1_ClassificationTotal ==
  \A t \in Tasks :
    /\ Resolved(t) =>
         /\ IsSome(tasks[t].annotation)
         /\ annotationOf(t).type \in AnnotationTypes
    /\ tasks[t].pc = "rejected" =>
         tasks[t].failed \cap {"getBlockData", "lookUpName"} # {}
    /\ tasks[t].pc = "returned" =>
         /\ IsSome(tasks[t].result)
         /\ IsSome(Get(tasks[t].result).annotation)

\* C1 witness: a call with undecodable input to an unknown contract, with
\* logs and a block hash, has returned the fallback annotation.
C1_Witness ==
  /\ tasks[1].pc = "returned"
  /\ tasks[1].failed = {}
  /\ tasks[1].tx.input = Some(<<UnknownSelector>>)
  /\ tasks[1].tx.to = Some(OtherAddr)
  /\ IsSome(tasks[1].tx.logs)
  /\ IsSome(tasks[1].tx.blockHash)
  /\ annotationOf(1).type = "contract-interaction"

\* C2: a transaction without recipient is annotated contract-deployment,
\* whatever its input, value, logs and block hash.
C2_NoRecipientIsDeployment ==
  \A t \in Tasks :
    (Resolved(t) /\ tasks[t].tx.to = None) =>
      annotationOf(t).type = "contract-deployment"

\* C2 witness: a deployment carrying ERC-20 transfer call data, a value,
\* logs and a block hash has been resolved.
C2_Witness ==
  /\ tasks[1].pc = "returned"
  /\ tasks[1].tx.to = None
  /\ tasks[1].tx.input = Some(<<TransferSelector, RcptAddr, MaxAmount>>)
  /\ IsSome(tasks[1].tx.value)
  /\ IsSome(tasks[1].tx.logs)
  /\ IsSome(tasks[1].tx.blockHash)
  /\ annotationOf(1).type = "contract-deployment"

\* C3: with a recipient and absent or empty input, a present value gives an
\* asset-transfer of the base asset from the transaction sender to the
\* transaction recipient with the value as raw amount, an absent value gives
\* contract-interaction; the asset list is never read for the primary
\* classification.
C3_EmptyInput ==
  \A t \in Tasks :
    (IsSome(tasks[t].tx.to) /\ InputIsEmpty(tasks[t].tx)) =>
      /\ tasks[t].primaryAssets = None
      /\ tasks[t].pc # "getCachedAssets"
      /\ Resolved(t) =>
           IF IsSome(tasks[t].tx.value)
           THEN /\ annotationOf(t).type = "asset-transfer"
                /\ Get(annotationOf(t).assetAmount).asset = network.baseAsset
                /\ Get(annotationOf(t).assetAmount).amount
                     = Get(tasks[t].tx.value)
                /\ annotationOf(t).senderAddress = Some(tasks[t].tx.from)
                /\ annotationOf(t).recipientAddress = tasks[t].tx.to
           ELSE annotationOf(t).type = "contract-interaction"

\* C3 witness: a send of value 0 to the address of a known token has been
\* resolved while the asset list knows the token.
C3_Witness ==
  /\ tasks[1].pc = "returned"
  /\ tasks[1].tx.to = Some(TokenAddr)
  /\ tasks[1].tx.input = Some(<< >>)
  /\ tasks[1].tx.value = Some(0)
  /\ assets = <<ETH, USDC>>
  /\ annotationOf(1).type = "asset-transfer"

\* C4: non-empty input that decodes to transfer or transferFrom, sent to the
\* address of a known fungible asset, gives an asset-transfer of that asset
\* with the decoded recipient and amount; the sender is the decoded one for
\* transferFrom and the transaction sender for transfer.
C4_TokenTransfer ==
  \A t \in Tasks :
    (Resolved(t) /\ HasCallData(t) /\ IsSome(DecodedCall(t))
       /\ Get(DecodedCall(t)).name \in {"transfer", "transferFrom"}
       /\ KnownAssetsAt(Get(tasks[t].primaryAssets), Get(tasks[t].tx.to))
            # {}) =>
      LET call == Get(DecodedCall(t))
          a == annotationOf(t)
      IN  /\ a.type = "asset-transfer"
          /\ Get(a.assetAmount).asset \in
               KnownAssetsAt(Get(tasks[t].primaryAssets), Get(tasks[t].tx.to))
          /\ a.recipientAddress = call.args.to
          /\ Get(a.assetAmount).amount = Get(call.args.amount)
          /\ a.senderAddress =
               IF call.name = "transferFrom" THEN call.args.from
               ELSE Some(tasks[t].tx.from)

\* C4 witness: a transferFrom on the token has been resolved against a list
\* that spells the token's address in the other case.
C4_Witness ==
  /\ tasks[1].pc = "returned"
  /\ tasks[1].tx.input =
       Some(<<TransferFromSelector, OwnerAddr, RcptAddr, MaxAmount>>)
  /\ tasks[1].tx.to = Some(TokenAddr)
  /\ tasks[1].primaryAssets = Some(<<USDCNoLogo>>)
  /\ annotationOf(1).senderAddress = Some(OwnerAddr)

\* C5, as stated: input that decodes to approve(spender, value) gives an
\* asset-approval whose spenderAddress is the decoded spender, for every
\* such transaction with a recipient.
C5_EveryApproveIsApproval ==
  \A t \in Tasks :
    (Resolved(t) /\ HasCallData(t) /\ IsSome(DecodedCall(t))
       /\ Get(DecodedCall(t)).name = "approve") =>
      /\ annotationOf(t).type = "asset-approval"
      /\ annotationOf(t).spenderAddress = Get(DecodedCall(t)).args.spender

\* C5, amended: input that decodes to approve(spender, value), sent to the
\* address of a known fungible asset, gives an asset-approval of that asset
\* whose spenderAddress is the decoded spender and whose raw amount is the
\* decoded value, for every value; sent to any other address it gives
\* contract-interaction.
C5_ApproveOfKnownAsset ==
  \A t \in Tasks :
    (Resolved(t) /\ HasCallData(t) /\ IsSome(DecodedCall(t))
       /\ Get(DecodedCall(t)).name = "approve") =>
      LET known == KnownAssetsAt(Get(tasks[t].primaryAssets),
                                 Get(tasks[t].tx.to))
          call == Get(DecodedCall(t))
          a == annotationOf(t)
      IN  IF known # {}
          THEN /\ a.type = "asset-approval"
               /\ a.spenderAddress = call.args.spender
               /\ Get(a.assetAmount).asset \in known
               /\ Get(a.assetAmount).amount = Get(call.args.value)
          ELSE a.type = "contract-interaction"

\* C5 witness: an approve of the largest value on the known token has been
\* resolved as an approval for the decoded spender.
C5_Witness ==
  /\ tasks[1].pc = "returned"
  /\ tasks[1].tx.input = Some(<<ApproveSelector, SpenderAddr, MaxAmount>>)
  /\ tasks[1].tx.to = Some(TokenAddr)
  /\ annotationOf(1).type = "asset-approval"
  /\ annotationOf(1).spenderAddress = Some(SpenderAddr)
  /\ Get(annotationOf(1).assetAmount).amount = MaxAmount

\* C6: a transaction with recipient and non-empty input that is not an
\* asset-transfer or asset-approval is a contract-interaction, which is the
\* case whenever the input does not decode or the recipient matches no known
\* fungible asset; it carries a logo URL exactly when the recipient matches
\* a known fungible asset that has one, decodable input or not.
C6_Fallback ==
  \A t \in Tasks :
    (Resolved(t) /\ HasCallData(t)) =>
      LET known == KnownAssetsAt(Get(tasks[t].primaryAssets),
                                 Get(tasks[t].tx.to))
          logos == { Get(k.logoURL) : k \in { x \in known : IsSome(x.logoURL) } }
          a == annotationOf(t)
      IN  /\ (DecodedCall(t) = None \/ known = {}) =>
               a.type \notin {"asset-transfer", "asset-approval"}
          /\ a.type \notin {"asset-transfer", "asset-approval"} =>
               /\ a.type = "contract-interaction"
               /\ IsSome(a.transactionLogoURL) <=> logos # {}
               /\ IsSome(a.transactionLogoURL) =>
                    Get(a.transactionLogoURL) \in logos

\* C6 witness: undecodable input sent to the known token has been resolved
\* as a contract interaction that carries the token's logo.
C6_Witness ==
  /\ tasks[1].pc = "returned"
  /\ tasks[1].tx.input = Some(<<UnknownSelector>>)
  /\ tasks[1].tx.to = Some(TokenAddr)
  /\ annotationOf(1).type = "contract-interaction"
  /\ annotationOf(1).transactionLogoURL = Some("usdc.png")

\* The Transfer logs of a transaction whose contract is a fungible asset of
\* the list read by the log pass, in log order.
MatchedLogs(t) ==
  LET snapshot == Get(tasks[t].logAssets)
      IsMatched(log) ==
        /\ Len(log.topics) = 3
        /\ log.topics[1] = TransferTopic
        /\ KnownAssetsAt(snapshot, log.contractAddress) # {}
  IN  SelectSeq(Get(tasks[t].tx.logs), IsMatched)

DecodedLogs(t) ==
  LET IsTransfer(log) == Len(log.topics) = 3 /\ log.topics[1] = TransferTopic
  IN  SelectSeq(Get(tasks[t].tx.logs), IsTransfer)

\* C7: with logs, the subannotations are one asset-transfer per Transfer log
\* whose contract matches a known fungible asset, in log order, none with
\* subannotations of its own; with no such log, or no logs, the field is
\* absent.
C7_Subannotations ==
  \A t \in Tasks :
    Resolved(t) =>
      LET a == annotationOf(t)
      IN  IF ~IsSome(tasks[t].tx.logs) \/ Len(MatchedLogs(t)) = 0
          THEN a.subannotations = None
          ELSE /\ IsSome(a.subannotations)
               /\ Len(Get(a.subannotations)) = Len(MatchedLogs(t))
               /\ \A k \in DOMAIN MatchedLogs(t) :
                    LET sub == Get(a.subannotations)[k]
                        log == MatchedLogs(t)[k]
                    IN  /\ sub.type = "asset-transfer"
                        /\ sub.subannotations = None
                        /\ sub.recipientAddress = Some(log.topics[3])
                        /\ sub.senderAddress = Some(log.topics[2])
                        /\ Get(sub.assetAmount).amount = log.data
                        /\ Get(sub.assetAmount).asset \in
                             KnownAssetsAt(Get(tasks[t].logAssets),
                                           log.contractAddress)

\* C7 witness: of two decoded Transfer logs only the second matches a known
\* asset, and the deployment's annotation has that one subannotation.
C7_Witness ==
  /\ tasks[1].pc = "returned"
  /\ tasks[1].tx.to = None
  /\ IsSome(tasks[1].tx.logs)
  /\ Len(DecodedLogs(1)) = 2
  /\ Len(MatchedLogs(1)) = 1
  /\ MatchedLogs(1)[1] = Get(tasks[1].tx.logs)[2]
  /\ Len(Get(annotationOf(1).subannotations)) = 1

\* C7 witness of the absent field: a resolution with decoded Transfer logs
\* of which none matches has returned.
C7_WitnessAbsent ==
  /\ tasks[1].pc = "returned"
  /\ IsSome(tasks[1].tx.logs)
  /\ Len(DecodedLogs(1)) = 2
  /\ Len(MatchedLogs(1)) = 0

\* C8, as stated: a rejection of the lookUpName call awaited during primary
\* classification does not end the resolution; the annotation is still
\* returned.
C8_NameFailureNotFatal ==
  \A t \in Tasks :
    "lookUpName" \in tasks[t].failed => tasks[t].pc # "rejected"

\* The lookups of the batch made for an address, in any spelling.
LookupsOf(t, address) ==
  { i \in DOMAIN tasks[t].batch :
      normalizeEVMAddress(tasks[t].batch[i].address)
        = normalizeEVMAddress(address) }

\* Those of them that were fulfilled with a name.
NamedLookupsOf(t, address) ==
  { i \in LookupsOf(t, address) :
      /\ tasks[t].batch[i].status = "fulfilled"
      /\ IsSome(tasks[t].batch[i].name) }

Last(S) == CHOOSE i \in S : \A j \in S : j <= i

C10_FailureIsolated ==
  /\ \A t \in Tasks :
       (tasks[t].caller = "handler"
          /\ tasks[t].failed \cap {"getBlockData", "lookUpName"} # {}) =>
         tasks[t].pc # "rejected"
  /\ serviceState = "running" => listeners = 1

\* The enrichedEVMTransaction events emitted for the event of a resolution.
EventsOf(t) ==
  { i \in DOMAIN emitted : emitted[i].forAccounts = EventAccounts(t) }

\* A transaction event delivered to the registered handler.
Heard(t) == tasks[t].caller = "handler"

\* One enriched event per completed handler, none otherwise, and every
\* enriched event is that of a received event: its forAccounts and its
\* transaction fields are the event's, with the resolution's annotation.
EmittedIsReceived ==
  /\ \A t \in Tasks :
       Cardinality(EventsOf(t)) =
         IF Heard(t) /\ tasks[t].pc = "emitted" THEN 1 ELSE 0
  /\ \A i \in DOMAIN emitted :
       \E t \in Tasks :
         /\ Heard(t)
         /\ tasks[t].pc = "emitted"
         /\ IsSome(tasks[t].annotation)
         /\ emitted[i].forAccounts = tasks[t].forAccounts
         /\ emitted[i].transaction.from = tasks[t].tx.from
         /\ emitted[i].transaction.to = tasks[t].tx.to
         /\ emitted[i].transaction.input = tasks[t].tx.input
         /\ emitted[i].transaction.value = tasks[t].tx.value
         /\ emitted[i].transaction.blockHash = tasks[t].tx.blockHash
         /\ emitted[i].transaction.logs = tasks[t].tx.logs
         /\ emitted[i].transaction.annotation = tasks[t].annotation

\* C11: every transaction event delivered to the running service whose
\* collaborator calls all return without failing is eventually answered by
\* its enrichedEVMTransaction event; there is exactly one such event per
\* answered event, it carries the event's forAccounts and transaction
\* fields with the annotation, and no enriched event is emitted that is not
\* the answer to a received event.
C11_EveryEventAnswered ==
  /\ []EmittedIsReceived
  /\ \A t \in Tasks :
       Heard(t) ~> (tasks[t].pc = "emitted" \/ tasks[t].failed # {})

\* C11 witness: both events were delivered and answered, no call failed.
C11_Witness ==
  /\ Len(emitted) = MaxEvents
  /\ \A t \in Tasks :
       /\ Heard(t)
       /\ tasks[t].pc = "emitted"
       /\ tasks[t].failed = {}
       /\ Cardinality(EventsOf(t)) = 1

\* The service moves from uninitialized to starting to running and no other
\* way, and the handler is registered by the start and by nothing else.
LifecycleStep ==
  /\ serviceState' # serviceState =>
       <<serviceState, serviceState'>> \in
         { <<"uninitialized", "starting">>, <<"starting", "running">> }
  /\ listeners' # listeners =>
       /\ serviceState = "starting"
       /\ serviceState' = "running"
       /\ listeners' = listeners + 1
  /\ \A t \in Tasks :
       tasks[t].pc = "unheard" => tasks'[t] = tasks[t]

\* One handler while running and none before; an event from before the
\* start has no resolution and no enriched event, an event delivered to the
\* running service has one resolution.
SubscribedOnce ==
  /\ listeners = IF serviceState = "running" THEN 1 ELSE 0
  /\ \A t \in Tasks :
       /\ tasks[t].pc = "unheard" =>
            /\ tasks[t].handlers = 0
            /\ ~Heard(t)
            /\ EventsOf(t) = {}
       /\ Heard(t) =>
            /\ serviceState = "running"
            /\ tasks[t].handlers = 1

\* C12: the service goes uninitialized -> starting -> running; the handler
\* of the chain's transaction events is registered exactly once, during the
\* start; an event from before the start is never enriched; an event after
\* the start starts exactly one resolution.
C12_Lifecycle == []SubscribedOnce /\ [][LifecycleStep]_vars

\* C12 witness: the first event came before the start and was lost, the
\* second came to the running service and was enriched.
C12_Witness ==
  /\ serviceState = "running"
  /\ listeners = 1
  /\ tasks[1].pc = "unheard"
  /\ tasks[2].pc = "emitted"
  /\ tasks[2].handlers = 1
  /\ Len(emitted) = 1
  /\ emitted[1].forAccounts = EventAccounts(2)

\* The calls of enrichTransactionSignature, and those that have ended, by
\* returning or by rejecting.
SignatureCalls == { t \in Tasks : tasks[t].caller = "signature" }

EndedSignatureCalls ==
  { t \in SignatureCalls : tasks[t].pc \in {"returned", "rejected"} }

\* What a call of enrichTransactionSignature that returns has done: it has
\* emitted one event, after the annotation was resolved, and the payload is
\* the value returned, the request with the annotation.
SignatureEventOfReturn ==
  /\ Len(emittedSignatureRequests) =
       Cardinality({ t \in SignatureCalls : tasks[t].pc = "returned" })
  /\ \A t \in SignatureCalls :
       tasks[t].pc = "returned" =>
         /\ IsSome(tasks[t].annotation)
         /\ IsSome(tasks[t].result)
         /\ \E i \in DOMAIN emittedSignatureRequests :
              /\ emittedSignatureRequests[i] = Get(tasks[t].result)
              /\ emittedSignatureRequests[i].from = tasks[t].tx.from
              /\ emittedSignatureRequests[i].to = tasks[t].tx.to
              /\ emittedSignatureRequests[i].input = tasks[t].tx.input
              /\ emittedSignatureRequests[i].value = tasks[t].tx.value
              /\ emittedSignatureRequests[i].annotation = tasks[t].annotation

\* C13, as stated: every call of enrichTransactionSignature, whatever the
\* partial request, emits exactly one
\* enrichedEVMTransactionSignatureRequest event, and the event is the value
\* returned: the request with its annotation.
C13_OneEventPerCall ==
  /\ Len(emittedSignatureRequests) = Cardinality(EndedSignatureCalls)
  /\ SignatureEventOfReturn

\* C14: a call of enrichSignTypedDataRequest that has returned has emitted
\* exactly one enrichedSignTypedDataRequest event, the value returned: the
\* request with its annotation.  For typed data of the EIP-2612 permit
\* shape the annotation is eip2612-permit with the message's owner,
\* spender, amount and deadline, and with the known asset at the domain's
\* verifyingContract or, when there is none, no asset; for any other typed
\* data it is unrecognized and no collaborator has been consulted.  Before
\* the return nothing is emitted.
C14_TypedDataAnnotation ==
  /\ typedData.pc # "returned" => emittedTypedDataRequests = << >>
  /\ typedData.pc = "returned" =>
       /\ IsSome(typedData.request)
       /\ IsSome(typedData.result)
       /\ emittedTypedDataRequests = <<Get(typedData.result)>>
       /\ Get(typedData.result).account = Get(typedData.request).account
       /\ Get(typedData.result).typedData = Get(typedData.request).typedData
       /\ LET data == Get(typedData.request).typedData
              annotation == Get(typedData.result).annotation
          IN  IF isEIP2612TypedData(data)
              THEN /\ annotation.type = "eip2612-permit"
                   /\ annotation.owner = data.message.owner
                   /\ annotation.spender = data.message.spender
                   /\ annotation.amount = data.message.value
                   /\ annotation.deadline = data.message.deadline
                   /\ IsSome(annotation.asset) =>
                        /\ IsSome(data.domain.verifyingContract)
                        /\ sameEVMAddress(
                             Get(annotation.asset).contractAddress,
                             data.domain.verifyingContract)
                   /\ "getCachedAssets" \in typedData.consulted
              ELSE /\ annotation = UnrecognizedAnnotation
                   /\ typedData.consulted = {}

\* C14 witness: a permit of a contract no asset list knows was annotated
\* eip2612-permit without asset, and emitted.
C14_Witness ==
  /\ typedData.pc = "returned"
  /\ IsSome(typedData.request)
  /\ Get(typedData.request).typedData.primaryType = "Permit"
  /\ Get(typedData.request).typedData.domain.verifyingContract
       = Some(OtherAddr)
  /\ IsSome(typedData.result)
  /\ Get(typedData.result).annotation.type = "eip2612-permit"
  /\ Get(typedData.result).annotation.asset = None
  /\ Len(emittedTypedDataRequests) = 1

\* C14 witness of the other case: a request of another primary type was
\* annotated unrecognized and emitted, no collaborator consulted.
C14_WitnessUnrecognized ==
  /\ typedData.pc = "returned"
  /\ IsSome(typedData.request)
  /\ Get(typedData.request).typedData.primaryType = "Mail"
  /\ typedData.consulted = {}
  /\ Len(emittedTypedDataRequests) = 1
  /\ emittedTypedDataRequests[1].annotation.type = "unrecognized"

\* The next event to arrive is that of the first idle resolution.
NextToArrive(t) ==
  /\ tasks[t].pc = "idle"
  /\ \A u \in Tasks : u < t => tasks[u].pc # "idle"

\* Whatever the other resolutions are suspended on, the running service
\* takes the next event, a suspended resolution can take the settling of
\* its call, and a handler whose resolution has returned can emit.
NonBlocking ==
  \A t \in Tasks :
    /\ NextToArrive(t) =>
         ENABLED (\E tx \in EventTransactions, now \in Clock :
                    TransactionEvent(t, tx, EventAccounts(t), now))
    /\ InFlight(tasks[t]) => ENABLED Resolution(t)
    /\ (Heard(t) /\ tasks[t].pc = "resolved") =>
         ENABLED EmitEnrichedEVMTransaction(t)

\* A handler that completes appends its event to those emitted before:
\* events are in the order of completion.
CompletionOrder ==
  \A t \in Tasks :
    (tasks[t].pc # "emitted" /\ tasks'[t].pc = "emitted") =>
      /\ Len(emitted') = Len(emitted) + 1
      /\ emitted'[Len(emitted')].forAccounts = tasks[t].forAccounts
      /\ \A i \in DOMAIN emitted : emitted'[i] = emitted[i]

\* C15: no resolution blocks another: while resolutions are suspended on
\* collaborator calls a later event can start, each suspended resolution
\* can take its next step and each completed one can emit, and the events
\* are emitted in the order the resolutions complete.
C15_NoBlocking == []NonBlocking /\ [][CompletionOrder]_vars

\* C15 witness: the first event's resolution is still suspended on its
\* call when the second event, which arrived later, has been emitted.
C15_Witness ==
  /\ Heard(1)
  /\ InFlight(tasks[1])
  /\ Heard(2)
  /\ tasks[2].pc = "emitted"
  /\ Len(emitted) = 1
  /\ emitted[1].forAccounts = EventAccounts(2)

\* C15 witness of the number in flight: every resolution is suspended at
\* the same time.
C15_WitnessAllInFlight ==
  \A t \in Tasks : Heard(t) /\ InFlight(tasks[t])

\* The type the classification order gives a transaction against the asset
\* list read for the primary classification: deployment without recipient,
\* then the plain send or call without input, then the decoded ERC-20 call
\* on a known asset, then the fallback.
TypeOf(tx, snapshot) ==
  IF ~IsSome(tx.to) THEN "contract-deployment"
  ELSE IF InputIsEmpty(tx)
  THEN IF IsSome(tx.value) THEN "asset-transfer" ELSE "contract-interaction"
  ELSE LET call == parseERC20Tx(Get(tx.input))
           known == KnownAssetsAt(Get(snapshot), Get(tx.to)) # {}
       IN  IF known /\ IsSome(call)
           THEN IF Get(call).name = "approve" THEN "asset-approval"
                ELSE "asset-transfer"
           ELSE "contract-interaction"

\* The timestamp of the block a resolution was given, if it was given one.
BlockTimestampOf(t) ==
  IF IsSome(tasks[t].block) THEN Some(Get(tasks[t].block).timestamp)
  ELSE None

\* C16: getBlockData is called once by a resolution whose transaction has a
\* block hash and not at all by any other; the blockTimestamp of the
\* annotation and of every subannotation is the timestamp of the block
\* returned, and is unset when the block is undefined or there is no block
\* hash; the classification is then the one the transaction and the asset
\* list give, and an undefined block ends no resolution in error.
C16_BlockLookup ==
  \A t \in Tasks :
    /\ tasks[t].pc # "idle" =>
         tasks[t].blockCalls = IF IsSome(tasks[t].tx.blockHash) THEN 1 ELSE 0
    /\ ~IsSome(tasks[t].tx.blockHash) =>
         /\ tasks[t].block = None
         /\ "getBlockData" \notin tasks[t].failed
    /\ Resolved(t) =>
         /\ annotationOf(t).blockTimestamp = BlockTimestampOf(t)
         /\ IsSome(annotationOf(t).subannotations) =>
              \A i \in DOMAIN Get(annotationOf(t).subannotations) :
                Get(annotationOf(t).subannotations)[i].blockTimestamp
                  = BlockTimestampOf(t)
         /\ annotationOf(t).type = TypeOf(tasks[t].tx, tasks[t].primaryAssets)
    /\ tasks[t].pc = "rejected" => tasks[t].failed # {}

\* C16 witness: a mined token transfer with a Transfer log was resolved with
\* the block returned; annotation and subannotation carry its timestamp.
C16_Witness ==
  /\ tasks[1].pc = "returned"
  /\ IsSome(tasks[1].tx.blockHash)
  /\ tasks[1].blockCalls = 1
  /\ IsSome(tasks[1].block)
  /\ annotationOf(1).type = "asset-transfer"
  /\ annotationOf(1).blockTimestamp = Some(Get(tasks[1].block).timestamp)
  /\ IsSome(annotationOf(1).subannotations)
  /\ Get(annotationOf(1).subannotations)[1].blockTimestamp
       = Some(Get(tasks[1].block).timestamp)

\* C16 witness of the undefined block: the same kind of transaction was
\* resolved though getBlockData returned no block.
C16_WitnessNoBlock ==
  /\ tasks[1].pc = "returned"
  /\ IsSome(tasks[1].tx.blockHash)
  /\ tasks[1].blockCalls = 1
  /\ tasks[1].block = None
  /\ annotationOf(1).type = "asset-transfer"
  /\ annotationOf(1).blockTimestamp = None
  /\ IsSome(annotationOf(1).subannotations)
  /\ Get(annotationOf(1).subannotations)[1].blockTimestamp = None

\* The resolutions whose log pass has started its name lookups.
BatchStarted(t) == IsSome(tasks[t].tx.logs) /\ IsSome(tasks[t].logAssets)

\* What the log pass does look up: the recipient of every decoded Transfer
\* log, matched or not, once per spelling, all lookups started together.
LookupsPerSpelling ==
  \A t \in Tasks :
    BatchStarted(t) =>
      /\ { tasks[t].batch[i].address : i \in DOMAIN tasks[t].batch }
           = { DecodedLogs(t)[k].topics[3] : k \in DOMAIN DecodedLogs(t) }
      /\ \A i, j \in DOMAIN tasks[t].batch :
           i # j => tasks[t].batch[i].address # tasks[t].batch[j].address

\* C17, as stated: the log pass looks up the recipients of the logs that
\* matched a known asset and no other address, and each address once,
\* whatever the hex case it is written in.
C17_LookupsOnlyForMatched ==
  \A t \in Tasks :
    BatchStarted(t) =>
      /\ \A i \in DOMAIN tasks[t].batch :
           \E k \in DOMAIN MatchedLogs(t) :
             normalizeEVMAddress(MatchedLogs(t)[k].topics[3])
               = normalizeEVMAddress(tasks[t].batch[i].address)
      /\ \A k \in DOMAIN MatchedLogs(t) :
           \E i \in DOMAIN tasks[t].batch :
             normalizeEVMAddress(MatchedLogs(t)[k].topics[3])
               = normalizeEVMAddress(tasks[t].batch[i].address)
      /\ \A i, j \in DOMAIN tasks[t].batch :
           i # j => normalizeEVMAddress(tasks[t].batch[i].address)
                      # normalizeEVMAddress(tasks[t].batch[j].address)

\* The first part of C17 alone: no lookup for a log that matched no asset.
LookupsOnlyForMatchedLogs ==
  \A t \in Tasks :
    BatchStarted(t) =>
      \A i \in DOMAIN tasks[t].batch :
        \E k \in DOMAIN MatchedLogs(t) :
          normalizeEVMAddress(MatchedLogs(t)[k].topics[3])
            = normalizeEVMAddress(tasks[t].batch[i].address)

\* The second part of C17 alone: one lookup per address across hex case.
OneLookupPerAddress ==
  \A t \in Tasks :
    \A i, j \in DOMAIN tasks[t].batch :
      i # j => normalizeEVMAddress(tasks[t].batch[i].address)
                 # normalizeEVMAddress(tasks[t].batch[j].address)

\* The place of a step in resolveTransactionAnnotation: the block lookup,
\* the primary classification's read of the asset list and its name lookup,
\* the log pass's read and its batch of lookups, the return.
StepRank(pc) ==
  CASE pc = "idle" -> 0
    [] pc = "getBlockData" -> 1
    [] pc = "getCachedAssets" -> 2
    [] pc = "lookUpName" -> 3
    [] pc = "getCachedAssetsForLogs" -> 4
    [] pc = "allSettled" -> 5
    [] pc = "resolved" -> 6
    [] OTHER -> 7

\* A resolution only moves forward through the steps.
StepForward ==
  \A t \in Tasks :
    tasks'[t].pc # tasks[t].pc =>
      StepRank(tasks'[t].pc) > StepRank(tasks[t].pc)

\* The lookups of the batch that have not settled.
PendingLookups(t) ==
  { i \in DOMAIN tasks[t].batch : tasks[t].batch[i].status = "pending" }

\* What has and has not happened at each step: during the block lookup no
\* asset read or name lookup has started; during the primary classification
\* the log pass has not started and one name is being looked up at most;
\* the log pass starts with the primary annotation built; lookups are
\* pending together only in the batch; and a resolution that has started
\* and not ended is either suspended on one of the collaborator calls or has
\* its annotation.
StepOrder ==
  \A t \in Tasks :
    /\ tasks[t].pc = "getBlockData" =>
         /\ tasks[t].primaryAssets = None
         /\ tasks[t].lookUp = None
         /\ tasks[t].annotation = None
    /\ tasks[t].pc \in {"getBlockData", "getCachedAssets", "lookUpName"} =>
         /\ tasks[t].annotation = None
         /\ tasks[t].logAssets = None
         /\ tasks[t].batch = << >>
    /\ tasks[t].pc = "getCachedAssets" => tasks[t].lookUp = None
    /\ tasks[t].pc \in {"getCachedAssetsForLogs", "allSettled"} =>
         IsSome(tasks[t].annotation)
    /\ PendingLookups(t) # {} => tasks[t].pc = "allSettled"
    /\ tasks[t].pc \notin {"idle", "returned", "emitted", "rejected"} =>
         \/ InFlight(tasks[t])
         \/ tasks[t].pc = "resolved" /\ IsSome(tasks[t].annotation)

\* C18: inside one resolution the block lookup returns before any read of
\* the asset list or name lookup starts, the primary classification with
\* its one name lookup is complete before the log pass starts, only the
\* lookups of the log pass are in flight together, and the resolution is
\* suspended nowhere but on getBlockData, getCachedAssets and lookUpName.
C18_StepOrder == []StepOrder /\ [][StepForward]_vars

\* C18 witness: a mined transaction with a name lookup in its primary
\* classification and a Transfer log is in its log pass, the lookup of the
\* log's recipient pending, after the block lookup and the primary lookup.
C18_Witness ==
  /\ tasks[1].pc = "allSettled"
  /\ tasks[1].blockCalls = 1
  /\ IsSome(tasks[1].lookUp)
  /\ IsSome(tasks[1].annotation)
  /\ Cardinality(PendingLookups(1)) = 1

\* C18 witness of the overlap: two lookups of the log pass are pending at
\* the same time.
C18_WitnessOverlap ==
  /\ tasks[1].pc = "allSettled"
  /\ IsSome(tasks[1].annotation)
  /\ Cardinality(PendingLookups(1)) = 2

\* A resolution that read the asset list twice and has returned: the
\* primary annotation is the one the first list gives, with an asset of
\* that list, and the subannotations are those of the logs the second list
\* matches, each with an asset of the second list.
TwoSnapshots ==
  \A t \in Tasks :
    (Resolved(t) /\ IsSome(tasks[t].primaryAssets)
       /\ IsSome(tasks[t].logAssets) /\ IsSome(tasks[t].tx.logs)) =>
      LET a == annotationOf(t)
          first == Get(tasks[t].primaryAssets)
          second == Get(tasks[t].logAssets)
      IN  /\ a.type = TypeOf(tasks[t].tx, tasks[t].primaryAssets)
          /\ a.type \in {"asset-transfer", "asset-approval"} =>
               Get(a.assetAmount).asset
                 \in KnownAssetsAt(first, Get(tasks[t].tx.to))
          /\ IsSome(a.transactionLogoURL) =>
               \E k \in KnownAssetsAt(first, Get(tasks[t].tx.to)) :
                 k.logoURL = a.transactionLogoURL
          /\ IF Len(MatchedLogs(t)) = 0
             THEN a.subannotations = None
             ELSE /\ IsSome(a.subannotations)
                  /\ Len(Get(a.subannotations)) = Len(MatchedLogs(t))
                  /\ \A k \in DOMAIN MatchedLogs(t) :
                       /\ Get(a.subannotations)[k].type = "asset-transfer"
                       /\ Get(Get(a.subannotations)[k].assetAmount).asset
                            \in KnownAssetsAt(second,
                                  MatchedLogs(t)[k].contractAddress)

\* The asset list is the indexing collaborator's: a step that changes it is
\* no step of a resolution.
AssetListUntouched ==
  assets' # assets =>
    /\ tasks' = tasks
    /\ emitted' = emitted
    /\ \E snapshot \in AssetSnapshots : assets' = snapshot

\* C19: a resolution whose two reads of the asset list saw different lists
\* still returns a well-formed annotation, the primary annotation given by
\* the first list only and the subannotations by the second only; no step
\* of the engine changes the asset list.
C19_SnapshotRace == []TwoSnapshots /\ [][AssetListUntouched]_vars

\* C19 witness: a transfer on the token with a Transfer log of the token
\* was resolved; the first read knew the token, the second knew no asset,
\* so the annotation is an asset-transfer without subannotations.
C19_Witness ==
  /\ tasks[1].pc = "returned"
  /\ tasks[1].primaryAssets = Some(<<ETH, USDC>>)
  /\ tasks[1].logAssets = Some(<< >>)
  /\ IsSome(tasks[1].tx.logs)
  /\ Len(DecodedLogs(1)) = 1
  /\ annotationOf(1).type = "asset-transfer"
  /\ Get(annotationOf(1).assetAmount).asset = USDC
  /\ annotationOf(1).subannotations = None

\* C19 witness of the other direction: the token was unknown at the first
\* read and known at the second; a contract interaction with the log's
\* subannotation.
C19_WitnessLateAsset ==
  /\ tasks[1].pc = "returned"
  /\ tasks[1].primaryAssets = Some(<< >>)
  /\ tasks[1].logAssets = Some(<<ETH, USDC>>)
  /\ tasks[1].tx.to = Some(TokenAddr)
  /\ annotationOf(1).type = "contract-interaction"
  /\ IsSome(annotationOf(1).subannotations)
  /\ Len(Get(annotationOf(1).subannotations)) = 1

\* s is an extension of r: what was emitted stays as it was emitted.
Extends(s, r) ==
  /\ Len(s) >= Len(r)
  /\ \A i \in DOMAIN r : s[i] = r[i]

\* What a step leaves alone: the transaction or request an operation was
\* given; the asset list, in every step of the engine; the other
\* resolutions and the typed-data call, in every step of one resolution;
\* the service's state, in every step of a resolution; the events already
\* emitted.
FrameStep ==
  /\ \A t \in Tasks :
       tasks[t].pc # "idle" =>
         /\ tasks'[t].tx = tasks[t].tx
         /\ tasks'[t].forAccounts = tasks[t].forAccounts
         /\ tasks'[t].caller = tasks[t].caller
  /\ typedData.pc # "idle" => typedData'.request = typedData.request
  /\ assets' # assets =>
       /\ tasks' = tasks
       /\ typedData' = typedData
       /\ emitted' = emitted
       /\ emittedSignatureRequests' = emittedSignatureRequests
       /\ emittedTypedDataRequests' = emittedTypedDataRequests
  /\ \A t, u \in Tasks :
       (t # u /\ tasks'[t] # tasks[t]) => tasks'[u] = tasks[u]
  /\ tasks' # tasks =>
       /\ typedData' = typedData
       /\ serviceState' = serviceState
       /\ listeners' = listeners
  /\ typedData' # typedData => tasks' = tasks
  /\ Extends(emitted', emitted)
  /\ Extends(emittedSignatureRequests', emittedSignatureRequests)
  /\ Extends(emittedTypedDataRequests', emittedTypedDataRequests)

\* The result of an operation is the object it was given with the
\* annotation added, and the annotation of a resolution is that of its own
\* transaction and reads.
FreshResults ==
  /\ \A t \in Tasks :
       /\ tasks[t].pc = "returned" =>
            /\ IsSome(tasks[t].result)
            /\ Get(tasks[t].result).from = tasks[t].tx.from
            /\ Get(tasks[t].result).to = tasks[t].tx.to
            /\ Get(tasks[t].result).input = tasks[t].tx.input
            /\ Get(tasks[t].result).value = tasks[t].tx.value
            /\ Get(tasks[t].result).blockHash = tasks[t].tx.blockHash
            /\ Get(tasks[t].result).logs = tasks[t].tx.logs
            /\ Get(tasks[t].result).annotation = tasks[t].annotation
       /\ Resolved(t) =>
            /\ annotationOf(t).type
                 = TypeOf(tasks[t].tx, tasks[t].primaryAssets)
            /\ annotationOf(t).timestamp = tasks[t].resolvedTime
            /\ annotationOf(t).blockTimestamp = BlockTimestampOf(t)
  /\ EmittedIsReceived
  /\ SignatureEventOfReturn
  /\ typedData.pc = "returned" =>
       /\ IsSome(typedData.result)
       /\ Get(typedData.result).account = Get(typedData.request).account
       /\ Get(typedData.result).typedData = Get(typedData.request).typedData

\* C20: no operation of the engine changes the transaction or request it
\* was given, the asset list, or anything another resolution holds; every
\* result is the given object with the annotation added; a resolution's
\* annotation depends on its own transaction and reads only.
C20_Frame == []FreshResults /\ [][FrameStep]_vars

\* C20 witness: the handler's resolution of a transaction with a log and a
\* caller's resolution ran side by side with a typed-data call, and each
\* has its own result.
C20_Witness ==
  /\ tasks[1].pc = "emitted"
  /\ IsSome(tasks[1].tx.logs)
  /\ IsSome(annotationOf(1).subannotations)
  /\ tasks[2].pc = "returned"
  /\ tasks[2].caller = "signature"
  /\ annotationOf(2).type = "asset-transfer"
  /\ annotationOf(1).type = "contract-deployment"
  /\ typedData.pc = "returned"
  /\ Len(emitted) = 1
  /\ Len(emittedSignatureRequests) = 1
  /\ Len(emittedTypedDataRequests) = 1

\* An annotation without its names, its block timestamp and its
\* subannotations.
WithoutNames(a) ==
  [a EXCEPT !.recipientName = None, !.spenderName = None,
            !.contractName = None, !.blockTimestamp = None,
            !.subannotations = None]

\* The same, also without the time of the resolution.
WithoutNamesAndTime(a) == [WithoutNames(a) EXCEPT !.timestamp = 0]

\* The subannotations of an annotation, none when the field is absent.
SubannotationsOf(a) ==
  IF IsSome(a.subannotations) THEN Get(a.subannotations) ELSE << >>

\* Two resolutions that have returned for transactions that agree on
\* recipient, input, value and logs, having read the same asset lists.
SameInputs(t, u) ==
  /\ Resolved(t)
  /\ Resolved(u)
  /\ SameRequest(tasks[t].tx, tasks[u].tx)
  /\ tasks[t].primaryAssets = tasks[u].primaryAssets
  /\ tasks[t].logAssets = tasks[u].logAssets

Occurrences(transfers, transfer) ==
  Cardinality({ i \in DOMAIN transfers : transfers[i] = transfer })

\* The transfers reported for the address: those to it, then those from it.
ReportedTransfers ==
  TransfersOrEmpty(history.toTransfers)
    \o TransfersOrEmpty(history.fromTransfers)

\* The returned list has one entry per reported transfer, a transfer
\* reported twice having two.
OneEntryPerTransfer ==
  LET transactions == Get(history.transactions)
  IN  /\ Len(transactions) = Len(ReportedTransfers)
      /\ Len(history.sorted) = Len(transactions)
      /\ \A transfer \in Transfers :
           Occurrences(history.sorted, transfer)
             = Occurrences(ReportedTransfers, transfer)

\* The transfers behind the entries ascend by block number.
AscendingBlockNumbers ==
  \A i, j \in DOMAIN history.sorted :
    i < j => parseInt(history.sorted[i].blockNum)
               <= parseInt(history.sorted[j].blockNum)

\* The entry of a transfer is undefined if its lookup failed and is its
\* formatted transaction if not, whatever happened to the other lookups.
EntryPerLookup ==
  LET transactions == Get(history.transactions)
  IN  \A i \in DOMAIN transactions :
        /\ history.settled[i] \in {"returned", "caught"}
        /\ history.settled[i] = "caught" => transactions[i] = None
        /\ history.settled[i] = "returned" =>
             transactions[i]
               = Some(FormattedTransaction(history.sorted[i].hash))

\* A failed lookup does not abort the call: once the lookups have started
\* the call does not reject, and it returns when all of them have ended.
LookupFailureDoesNotAbort ==
  /\ history.pc = "allSettled" => history'.pc \in {"allSettled", "returned"}
  /\ history.pc = "returned" => history' = history

AllLookupsEnded ==
  /\ history.pc = "allSettled"
  /\ \A i \in DOMAIN history.settled : history.settled[i] # "pending"

\* C22: getHistory returns a list with exactly one entry per asset transfer
\* reported for the address (those to it plus those from it, a transfer of
\* both lists twice), ordered by ascending block number; a transfer whose
\* transaction lookup fails has an undefined entry at its position, and the
\* failure neither aborts the call nor drops or reorders the other entries.
C22_GetHistory ==
  /\ [](history.pc = "returned" =>
          /\ IsSome(history.transactions)
          /\ OneEntryPerTransfer
          /\ AscendingBlockNumbers
          /\ EntryPerLookup)
  /\ [](AllLookupsEnded => ENABLED GetHistoryReturn)
  /\ [][LookupFailureDoesNotAbort]_vars

\* getHistory has returned four entries for two transfers to the address,
\* reported later block first, and two from it, one transfer being in both
\* lists; a lookup between the first and the last failed, the others
\* returned.
C22_Witness ==
  /\ history.pc = "returned"
  /\ IsSome(history.toTransfers)
  /\ IsSome(history.fromTransfers)
  /\ Get(history.toTransfers)
       = <<Transfer("0xaa", <<"1", "0">>), Transfer("0xbb", <<"9">>)>>
  /\ Get(history.fromTransfers)
       = <<Transfer("0xbb", <<"9">>), Transfer("0xcc", <<"1", "0">>)>>
  /\ IsSome(history.transactions)
  /\ Len(Get(history.transactions)) = 4
  /\ history.settled = <<"returned", "caught", "returned", "returned">>
  /\ Get(history.transactions)
       = << Some(FormattedTransaction("0xbb")), None,
            Some(FormattedTransaction("0xaa")),
            Some(FormattedTransaction("0xcc")) >>

\* getHistory has returned the empty list: neither response had a
\* transfers field.
C22_WitnessNoTransfers ==
  /\ history.pc = "returned"
  /\ history.toTransfers = None
  /\ history.fromTransfers = None
  /\ history.transactions = Some(<< >>)

====
